---- MODULE Spec2Model ----
(***************************************************************************)
(* A model of the aisuite provider layer: the per-vendor chat adapters     *)
(* (request construction, vendor call, response normalisation), adapter    *)
(* construction from configuration and environment, and the rerank record  *)
(* construction of rerank_util.                                            *)
(*                                                                         *)
(* Python values are encoded as follows.  A dictionary key or attribute    *)
(* that is not there is Absent, Python's None is None; an optional list is *)
(* a record [kind, items] with kind in {Absent, None, "list"}; an optional *)
(* string is a string, Absent or None.                                     *)
(***************************************************************************)
EXTENDS Integers, Sequences, FiniteSets, TLC

Absent == "<absent>"
None == "<None>"

\* Bounds of the model.
MaxMsgs == 2
MaxTools == 1
MaxCalls == 2

SeqsUpTo(S, n) == UNION {[1..k -> S] : k \in 0..n}
NonEmptySeqsUpTo(S, n) == UNION {[1..k -> S] : k \in 1..n}
Range(s) == {s[i] : i \in 1..Len(s)}
MapSeq(s, F(_)) == [i \in 1..Len(s) |-> F(s[i])]

\* An optional list: the key is absent, the value is None, or it is a list.
OptAbsent == [kind |-> Absent, items |-> <<>>]
OptNone == [kind |-> None, items |-> <<>>]
OptList(s) == [kind |-> "list", items |-> s]
\* Python truthiness of an optional list: `if tools:`.
TruthyList(o) == o.kind = "list" /\ Len(o.items) > 0
\* Python truthiness of an optional string: `if not api_key:`.
TruthyStr(s) == s \notin {Absent, None, ""}

(***************************************************************************)
(* The canonical input: messages, tool descriptors, keyword options.       *)
(***************************************************************************)
Msg(r, c) == [role |-> r, content |-> c]
MsgAlphabet ==
    {Msg("system", "s1"), Msg("system", "s2"), Msg("user", "u1"), Msg("assistant", "a1")}
\* chat_completions_create reads messages[0] (or messages[-1]): a history is not empty.
Histories == NonEmptySeqsUpTo(MsgAlphabet, MaxMsgs)

Arg(k, req) == [key |-> k, type |-> "string", required |-> req]
ToolDescs ==
    { [name |-> "get_weather", description |-> "d1",
       args |-> <<Arg("location", "true"), Arg("unit", Absent)>>],
      [name |-> "search", description |-> "d2",
       args |-> <<Arg("query", "false")>>] }
\* tools: Optional[SerializedTools] = None
ToolInputs == {OptNone} \cup {OptList(s) : s \in SeqsUpTo(ToolDescs, MaxTools)}

\* **kwargs: a set of [key, value] options (keys are unique).
Kw(k, v) == [key |-> k, value |-> v]
KwargInputs ==
    { {}, {Kw("temperature", "t1")}, {Kw("maxTokens", "n1"), Kw("stream", "true")} }
KwKeys(kw) == {o.key : o \in kw}

Models == {"m1"}
\* The model names a caller of the LangChain bridge may ask for.
LangchainModels == {"m1", "m2"}
\* The bridge maps a message by its role alone: one message of each role.
LangchainHistories ==
    NonEmptySeqsUpTo({m \in MsgAlphabet : m.content # "s2"}, MaxMsgs)

(***************************************************************************)
(* The vendor request, as the adapter hands it to the vendor client.       *)
(* src is the list of input positions the vendor messages were built from. *)
(***************************************************************************)
SysAbsent == [kind |-> Absent, texts |-> <<>>]
SysList(ts) == [kind |-> "list", texts |-> ts]
SysStr(c) == [kind |-> "str", texts |-> <<c>>]

NoRequest ==
    [api |-> "none", model |-> "", messages |-> <<>>, src |-> <<>>,
     system |-> SysAbsent, tools |-> OptAbsent, live |-> Absent,
     inferenceConfig |-> {}, additionalModelRequestFields |-> {}, kwargs |-> {},
     temperature |-> Absent]

IdxSeq(a, b) == [k \in 1..(b - a + 1) |-> a + k - 1]

(***************************************************************************)
(* The canonical response: ChatCompletionResponse() holds one Choice whose *)
(* Message has a content; tool_calls, function_call and finish_reason are  *)
(* attributes an adapter may set.                                          *)
(***************************************************************************)
FcUnset == [kind |-> Absent, name |-> "", arguments |-> ""]
FcSet(n, a) == [kind |-> "set", name |-> n, arguments |-> a]

ChatCompletionResponse ==
    [content |-> None, tool_calls |-> OptAbsent, function_call |-> FcUnset,
     finish_reason |-> Absent]

\* What a call ends with: a canonical response, the vendor client's own response
\* object handed back as it is, or an exception (its class, and what its message
\* carries).
NoOutcome ==
    [status |-> "none", error |-> "", detail |-> <<>>, response |-> ChatCompletionResponse]
Returned(r) == [NoOutcome EXCEPT !.status = "returned", !.response = r]
ReturnedRaw == [NoOutcome EXCEPT !.status = "returned_raw"]
Raised(e, d) == [NoOutcome EXCEPT !.status = "raised", !.error = e, !.detail = d]

\* What the vendor answers: the transport outcome and the response body.
CallAlphabet ==
    { [name |-> "get_weather", arguments |-> "{\"location\": \"NY\"}"],
      [name |-> "search", arguments |-> "{\"query\": \"q\"}"] }
FinishInputs == {Absent, "length"}

VARIABLES
    pc,              \* "idle" | "done": no call in progress / a call has ended
    provider,        \* the adapter class of the provider instance
    call,            \* the arguments of the last call, as the caller passed them
    reply,           \* what the vendor answered to the last call
    callerMessages,  \* the caller's messages list after the call
    request,         \* the request handed to the vendor by the last call
    outcome,         \* what the last call returned or raised
    model_instances, \* LangchainChatProvider.model_instances: model name -> client
    construction,    \* the last constructor call: its config, the environment, its result
    ranking,         \* the last create_ranking_records call: its arguments and result
    reranking,       \* the last GooglecloudReranker.rank call: its arguments and result
    vendorCalls,     \* how many times the last call invoked the vendor
    history,         \* of a LangChain provider: the model names used, the clients built
    clients,         \* the ChatOpenAI objects threads have constructed, by identity
    threads          \* of concurrent callers: each one's position and local variables

vars ==
    <<pc, provider, call, reply, callerMessages, request, outcome, model_instances,
      construction, ranking, reranking, vendorCalls, history, clients, threads>>

\* A ChatOpenAI client as the bridge uses it: its temperature and its functions.
NoInstance == [kind |-> Absent, temperature |-> Absent, functions |-> OptAbsent]
ChatOpenAI(temperature) ==
    [kind |-> "ChatOpenAI", temperature |-> temperature, functions |-> OptAbsent]
EmptyCache == [m \in LangchainModels |-> NoInstance]

NoCall == [model |-> "", messages |-> <<>>, tools |-> OptNone, kwargs |-> {}]
NoReply == [transport |-> "none"]

NoConstruction ==
    [config |-> <<>>, environ |-> <<>>, status |-> "none", error |-> "",
     instance |-> {}, client |-> [sdk |-> Absent, args |-> {}]]

\* No model name has been used and no client has been constructed.
NoHistory == [used |-> {}, constructed |-> [m \in LangchainModels |-> 0]]

\* No thread is calling.
NoThreads == <<>>

NoReranking ==
    [query |-> "", docs |-> <<>>, request |-> <<>>, vendor |-> <<>>, status |-> "none",
     results |-> <<>>]

NoDocs == [kind |-> "none", items |-> <<>>]
NoMetadata == [kind |-> None, title |-> Absent, score |-> Absent]
NoRanking ==
    [docs |-> NoDocs, doc_ids |-> OptNone, metadata |-> NoMetadata, status |-> "none",
     error |-> "", records |-> <<>>, log |-> <<>>]

(***************************************************************************)
(* AWS Bedrock: src/src/aisuite/providers/aws_provider.py                  *)
(***************************************************************************)
\* A list that leaves "temperature" out.
inference_parameters_NoTemperature == {"maxTokens", "topP", "stopSequences"}
\* self.inference_parameters
inference_parameters == {"maxTokens", "temperature", "topP", "stopSequences"}

AwsSystemMessage(messages) ==
    IF messages[1].role = "system"
    THEN SysList(<<messages[1].content>>)
    ELSE SysList(<<>>)

\* messages = messages[1:] when the first message is the system message
AwsRestIdx(messages) ==
    IF messages[1].role = "system"
    THEN IdxSeq(2, Len(messages))
    ELSE IdxSeq(1, Len(messages))

\* for message in messages: if message["role"] != "system": append
AwsKeptIdx(messages) ==
    SelectSeq(AwsRestIdx(messages), LAMBDA i : messages[i].role # "system")

AwsFormatMessage(m) == [role |-> m.role, content |-> <<[text |-> m.content]>>]

AwsRequired(args) ==
    MapSeq(SelectSeq(args, LAMBDA a : a.required = "true"), LAMBDA a : a.key)

AwsBedrockTool(tool) ==
    [name |-> tool.name, description |-> tool.description,
     inputSchema |-> [json |-> [type |-> "object", properties |-> tool.args,
                                required |-> AwsRequired(tool.args)]]]

\* bedrock_tools = None; if tools: one bedrock tool per tool;
\* if bedrock_tools: api_params["tools"] = bedrock_tools
AwsToolsField(tools) ==
    IF TruthyList(tools)
    THEN OptList(MapSeq(tools.items, AwsBedrockTool))
    ELSE OptAbsent

AwsApiParams(model, messages, tools, kwargs) ==
    [NoRequest EXCEPT
        !.api = "converse",
        !.model = model,
        !.src = AwsKeptIdx(messages),
        !.messages = MapSeq(AwsKeptIdx(messages), LAMBDA i : AwsFormatMessage(messages[i])),
        !.system = AwsSystemMessage(messages),
        !.inferenceConfig = {o \in kwargs : o.key \in inference_parameters},
        !.additionalModelRequestFields = {o \in kwargs : o.key \notin inference_parameters},
        !.tools = AwsToolsField(tools)]

\* Ids counted from 1, as enumerate(..., 1) would give.
CallId_FromOne(i) == "call_" \o ToString(i)
\* f"call_{i}", i counted from 0 by enumerate
CallId(i) == "call_" \o ToString(i - 1)

AwsToolCall(i, tool_use) ==
    [id |-> CallId(i), type |-> "function",
     function |-> [name |-> tool_use.toolName, arguments |-> tool_use.input]]

\* normalize_response: content; tool_calls and finish_reason only when "toolUse" is
\* in the message and the list built from it is not empty.
AwsNormalizeResponse(response) ==
    LET withContent == [ChatCompletionResponse EXCEPT !.content = response.text]
        tool_calls == [i \in 1..Len(response.toolUse.items) |->
                          AwsToolCall(i, response.toolUse.items[i])]
    IN  IF response.toolUse.kind # Absent /\ Len(tool_calls) > 0
        THEN [withContent EXCEPT !.tool_calls = OptList(tool_calls),
                                 !.finish_reason = "tool_calls"]
        ELSE withContent

\* The converse response: output.message.content[0].text, output.message.toolUse
\* (a list of {toolName, input}), stopReason; or the client raises (botocore's
\* ClientError, a connection error).
AwsToolUses == {[toolName |-> c.name, input |-> c.arguments] : c \in CallAlphabet}
AwsReplies ==
    { [transport |-> "ok", text |-> "r1", toolUse |-> tu, stopReason |-> sr] :
        tu \in {OptAbsent} \cup {OptList(l) : l \in SeqsUpTo(AwsToolUses, MaxCalls)},
        sr \in FinishInputs }
    \cup { [transport |-> "sdk_error", text |-> "", toolUse |-> OptAbsent,
            stopReason |-> Absent] }

\* One call of chat_completions_create from start to end: what the caller passed,
\* what the vendor was handed and answered, what the call ended with.
\* A faulty variant: a failed vendor call is issued a second time.
VendorRoundTrips_RetryOnFailure(response) == IF response.transport = "ok" THEN 1 ELSE 2

\* Each adapter invokes its vendor client in one statement, outside any loop and
\* outside any retry: once per call, whatever the answer.
VendorRoundTrips(response) == 1

Completes(model, messages, tools, kwargs, response, after, req, out) ==
    /\ pc' = "done"
    /\ call' = [model |-> model, messages |-> messages, tools |-> tools, kwargs |-> kwargs]
    /\ reply' = response
    /\ callerMessages' = after
    /\ request' = req
    /\ outcome' = out
    /\ vendorCalls' = VendorRoundTrips(response)
    /\ UNCHANGED <<provider, model_instances, construction, ranking, reranking, history, clients, threads>>

AwsOutcome(response) ==
    IF response.transport = "ok"
    THEN Returned(AwsNormalizeResponse(response))
    ELSE Raised("ClientError", <<>>)

AwsChatCompletionsCreate ==
    /\ pc = "idle"
    /\ provider = "aws"
    /\ \E model \in Models, messages \in Histories, tools \in ToolInputs,
       kwargs \in KwargInputs, response \in AwsReplies :
          Completes(model, messages, tools, kwargs, response, messages,
                     AwsApiParams(model, messages, tools, kwargs), AwsOutcome(response))

(***************************************************************************)
(* Anthropic: src/src/aisuite/providers/anthropic_provider.py              *)
(***************************************************************************)
DEFAULT_MAX_TOKENS == "4096"

\* system_message = messages[0]["content"], else []
AnthropicSystemMessage(messages) ==
    IF messages[1].role = "system"
    THEN SysStr(messages[1].content)
    ELSE SysList(<<>>)

\* A faulty variant: the system message is read but not removed from the list.
AnthropicKeptIdx_KeepsFirst(messages) == IdxSeq(1, Len(messages))

\* messages = messages[1:] when the first message is the system message
AnthropicKeptIdx(messages) ==
    IF messages[1].role = "system"
    THEN IdxSeq(2, Len(messages))
    ELSE IdxSeq(1, Len(messages))

AnthropicTool(tool) ==
    [name |-> tool.name, description |-> tool.description, input_schema |-> tool.args]

\* if tools: kwargs["tools"] = self._convert_to_anthropic_tools(tools)
AnthropicToolsField(tools) ==
    IF TruthyList(tools)
    THEN OptList(MapSeq(tools.items, AnthropicTool))
    ELSE OptAbsent

AnthropicKwargs(kwargs) ==
    IF "max_tokens" \in KwKeys(kwargs)
    THEN kwargs
    ELSE kwargs \cup {Kw("max_tokens", DEFAULT_MAX_TOKENS)}

AnthropicRequest(model, messages, tools, kwargs) ==
    [NoRequest EXCEPT
        !.api = "messages.create",
        !.model = model,
        !.src = AnthropicKeptIdx(messages),
        !.messages = MapSeq(AnthropicKeptIdx(messages), LAMBDA i : messages[i]),
        !.system = AnthropicSystemMessage(messages),
        !.kwargs = AnthropicKwargs(kwargs),
        !.tools = AnthropicToolsField(tools)]

AnthropicNormalizeResponse(response) ==
    [ChatCompletionResponse EXCEPT !.content = response.text]

\* response.content[0].text, or the client raises (anthropic.APIError).
AnthropicReplies ==
    {[transport |-> "ok", text |-> "r1"], [transport |-> "sdk_error", text |-> ""]}

AnthropicOutcome(response) ==
    IF response.transport = "ok"
    THEN Returned(AnthropicNormalizeResponse(response))
    ELSE Raised("APIError", <<>>)

AnthropicChatCompletionsCreate ==
    /\ pc = "idle"
    /\ provider = "anthropic"
    /\ \E model \in Models, messages \in Histories, tools \in ToolInputs,
       kwargs \in KwargInputs, response \in AnthropicReplies :
          Completes(model, messages, tools, kwargs, response, messages,
                     AnthropicRequest(model, messages, tools, kwargs),
                     AnthropicOutcome(response))

(***************************************************************************)
(* The OpenAI-style response body read by the Azure and Fireworks adapters *)
(***************************************************************************)
OaiToolCall(c) == [id |-> "call_abc", type |-> "function", function |-> c]
OaiToolCallLists ==
    {OptAbsent, OptNone}
    \cup {OptList(MapSeq(l, OaiToolCall)) : l \in SeqsUpTo(CallAlphabet, MaxCalls)}
OaiFunctionCalls == {FcUnset, FcSet("search", "{\"query\": \"q\"}")}
OaiBodies ==
    { [content |-> "r1", tool_calls |-> tc, function_call |-> fc, finish_reason |-> fr] :
        tc \in OaiToolCallLists, fc \in OaiFunctionCalls, fr \in FinishInputs }
NoBody ==
    [content |-> "", tool_calls |-> OptAbsent, function_call |-> FcUnset,
     finish_reason |-> Absent]
\* The transport's outcome: a 2xx with a body, a non-2xx status, or no HTTP response
\* at all (connection refused, timeout).
OaiReplies ==
    {[transport |-> "ok", code |-> "200", body |-> b] : b \in OaiBodies}
    \cup {[transport |-> "http_error", code |-> "401", body |-> NoBody],
          [transport |-> "network_error", code |-> "", body |-> NoBody]}

(***************************************************************************)
(* Azure: src/src/aisuite/providers/azure_provider.py                      *)
(***************************************************************************)
\* kwargs.pop("stream", None); data = {"messages": messages, **kwargs}
AzureKwargs(kwargs) == {o \in kwargs : o.key # "stream"}

\* if tools: data["tools"] = tools
AzureToolsField(tools) ==
    IF TruthyList(tools) THEN OptList(tools.items) ELSE OptAbsent

AzureRequest(model, messages, tools, kwargs) ==
    [NoRequest EXCEPT
        !.api = "POST /chat/completions",
        !.src = IdxSeq(1, Len(messages)),
        !.messages = messages,
        !.kwargs = AzureKwargs(kwargs),
        !.tools = AzureToolsField(tools)]

\* Lines 44-58: content, then tool_calls, elif function_call; finish_reason is set
\* in these two branches only.
\* A faulty variant: the legacy function_call is looked at before tool_calls.
AzureNormalize_FunctionCallFirst(message) ==
    LET withContent == [ChatCompletionResponse EXCEPT !.content = message.content]
    IN  IF message.function_call.kind # Absent
        THEN [withContent EXCEPT !.function_call = message.function_call,
                                 !.finish_reason = "function_call"]
        ELSE IF message.tool_calls.kind # Absent
        THEN [withContent EXCEPT !.tool_calls = message.tool_calls,
                                 !.finish_reason = "tool_calls"]
        ELSE withContent

AzureNormalize(message) ==
    LET withContent == [ChatCompletionResponse EXCEPT !.content = message.content]
    IN  IF message.tool_calls.kind # Absent
        THEN [withContent EXCEPT !.tool_calls = message.tool_calls,
                                 !.finish_reason = "tool_calls"]
        ELSE IF message.function_call.kind # Absent
        THEN [withContent EXCEPT !.function_call = message.function_call,
                                 !.finish_reason = "function_call"]
        ELSE withContent

\* A faulty variant: the HTTPError is not caught either.
AzureOutcome_NothingCaught(response) ==
    CASE response.transport = "ok" -> Returned(AzureNormalize(response.body))
      [] response.transport = "http_error" -> Raised("HTTPError", <<>>)
      [] OTHER -> Raised("URLError", <<>>)

\* except urllib.error.HTTPError: raise Exception(status code, headers, body);
\* urllib.error.URLError is not caught.
AzureOutcome(response) ==
    CASE response.transport = "ok" -> Returned(AzureNormalize(response.body))
      [] response.transport = "http_error" ->
            Raised("Exception", <<"status code", "headers", "body">>)
      [] OTHER -> Raised("URLError", <<>>)

AzureChatCompletionsCreate ==
    /\ pc = "idle"
    /\ provider = "azure"
    /\ \E model \in Models, messages \in Histories, tools \in ToolInputs,
       kwargs \in KwargInputs, response \in OaiReplies :
          Completes(model, messages, tools, kwargs, response, messages,
                     AzureRequest(model, messages, tools, kwargs), AzureOutcome(response))

(***************************************************************************)
(* Fireworks: src/src/aisuite/providers/fireworks_provider.py              *)
(***************************************************************************)
FireworksToolsField(tools) ==
    IF TruthyList(tools) THEN OptList(tools.items) ELSE OptAbsent

FireworksRequest(model, messages, tools, kwargs) ==
    [NoRequest EXCEPT
        !.api = "POST /inference/v1/chat/completions",
        !.model = model,
        !.src = IdxSeq(1, Len(messages)),
        !.messages = messages,
        !.kwargs = kwargs,
        !.tools = FireworksToolsField(tools)]

\* response_choice.get("finish_reason", "stop")
FireworksFinishReason(choice) ==
    IF choice.finish_reason = Absent THEN "stop" ELSE choice.finish_reason

\* A faulty variant: the legacy function_call branch is missing.
FireworksNormalizeResponse_NoLegacy(choice) ==
    LET withContent == [ChatCompletionResponse EXCEPT !.content = choice.content]
    IN  IF choice.tool_calls.kind # Absent
        THEN [withContent EXCEPT !.tool_calls = choice.tool_calls,
                                 !.finish_reason = "tool_calls"]
        ELSE [withContent EXCEPT !.finish_reason = FireworksFinishReason(choice)]

FireworksNormalizeResponse(choice) ==
    LET withContent == [ChatCompletionResponse EXCEPT !.content = choice.content]
    IN  IF choice.tool_calls.kind # Absent
        THEN [withContent EXCEPT !.tool_calls = choice.tool_calls,
                                 !.finish_reason = "tool_calls"]
        ELSE IF choice.function_call.kind # Absent
        THEN [withContent EXCEPT !.function_call = choice.function_call,
                                 !.finish_reason = "function_call"]
        ELSE [withContent EXCEPT !.finish_reason = FireworksFinishReason(choice)]

\* except httpx.HTTPStatusError: raise LLMError("Fireworks AI request failed: ...")
\* except Exception: raise LLMError("An error occurred: ...")
FireworksOutcome(response) ==
    CASE response.transport = "ok" -> Returned(FireworksNormalizeResponse(response.body))
      [] response.transport = "http_error" ->
            Raised("LLMError", <<"Fireworks AI request failed", "vendor message">>)
      [] OTHER -> Raised("LLMError", <<"An error occurred", "vendor message">>)

FireworksChatCompletionsCreate ==
    /\ pc = "idle"
    /\ provider = "fireworks"
    /\ \E model \in Models, messages \in Histories, tools \in ToolInputs,
       kwargs \in KwargInputs, response \in OaiReplies :
          Completes(model, messages, tools, kwargs, response, messages,
                     FireworksRequest(model, messages, tools, kwargs),
                     FireworksOutcome(response))

(***************************************************************************)
(* Groq: src/src/aisuite/providers/groq_provider.py                        *)
(* Mistral: src/aisuite/providers/mistral_provider.py                      *)
(***************************************************************************)
\* The client's own response object, or the client raises.
SdkReplies == {[transport |-> "ok"], [transport |-> "sdk_error"]}

\* self.client.chat.completions.create(model=model, messages=messages, **kwargs)
GroqRequest(model, messages, tools, kwargs) ==
    [NoRequest EXCEPT
        !.api = "chat.completions.create",
        !.model = model,
        !.src = IdxSeq(1, Len(messages)),
        !.messages = messages,
        !.kwargs = kwargs]

GroqOutcome(response) ==
    IF response.transport = "ok" THEN ReturnedRaw ELSE Raised("APIError", <<>>)

GroqChatCompletionsCreate ==
    /\ pc = "idle"
    /\ provider = "groq"
    /\ \E model \in Models, messages \in Histories, tools \in ToolInputs,
       kwargs \in KwargInputs, response \in SdkReplies :
          Completes(model, messages, tools, kwargs, response, messages,
                     GroqRequest(model, messages, tools, kwargs), GroqOutcome(response))

\* self.client.chat.complete(model=model, messages=messages, **kwargs)
MistralRequest(model, messages, tools, kwargs) ==
    [NoRequest EXCEPT
        !.api = "chat.complete",
        !.model = model,
        !.src = IdxSeq(1, Len(messages)),
        !.messages = messages,
        !.kwargs = kwargs]

MistralOutcome(response) ==
    IF response.transport = "ok" THEN ReturnedRaw ELSE Raised("SDKError", <<>>)

MistralChatCompletionsCreate ==
    /\ pc = "idle"
    /\ provider = "mistral"
    /\ \E model \in Models, messages \in Histories, tools \in ToolInputs,
       kwargs \in KwargInputs, response \in SdkReplies :
          Completes(model, messages, tools, kwargs, response, messages,
                     MistralRequest(model, messages, tools, kwargs),
                     MistralOutcome(response))

(***************************************************************************)
(* Google: src/src/aisuite/providers/google_provider_shared.py,            *)
(* src/src/aisuite/providers/googlegenai_provider.py (GenAI) and           *)
(* src/aisuite/providers/googlevertex_provider.py with its own             *)
(* src/aisuite/providers/google_provider_shared.py (Vertex)                *)
(***************************************************************************)
DEFAULT_TEMPERATURE == "0.7"

\* openai_roles_to_google_roles.get(message["role"], None)
\* A faulty variant: only the system role is mapped.
GoogleRole_AssistantKept(role) == IF role = "system" THEN "user" ELSE role

GoogleRole(role) ==
    CASE role = "system" -> "user"
      [] role = "assistant" -> "model"
      [] OTHER -> role

\* transform_roles assigns message["role"] in the caller's own dictionaries and
\* returns the caller's list.
transform_roles(messages) ==
    [i \in 1..Len(messages) |-> [messages[i] EXCEPT !.role = GoogleRole(messages[i].role)]]

\* The messages transform_roles is applied to on its own: any role, up to
\* MaxRoleMsgs of them.
MaxRoleMsgs == 3
RoleMsgAlphabet ==
    {Msg("system", "s1"), Msg("user", "u1"), Msg("assistant", "a1"),
     Msg("function", "f1"), Msg("tool", "t1")}
RoleHistories == SeqsUpTo(RoleMsgAlphabet, MaxRoleMsgs)

\* result = transform_roles(messages): the result is the caller's list.
TransformRoles ==
    /\ pc = "idle"
    /\ provider = "google_provider_shared"
    /\ pc' = "done"
    /\ callerMessages' = transform_roles(call.messages)
    /\ UNCHANGED <<provider, call, reply, request, outcome, model_instances,
                   construction, ranking, reranking, vendorCalls, history, clients, threads>>

\* The histories handed to the Google adapters: they split a history into the chat
\* history and the live turn, so one message more than elsewhere, of each role once.
GoogleHistories ==
    NonEmptySeqsUpTo({m \in MsgAlphabet : m.content # "s2"}, MaxMsgs + 1)

\* convert_openai_to_google_ai: an entry has a role and one text part; an entry of
\* role "assistant" whose message has the key "function_call" gets a function_call
\* field, and an entry of role "function" gets a function_response in its part.
GooglePart(message) ==
    IF message.role = "function"
    THEN [text |-> message.content,
          function_response |->
              [name |-> IF "name" \in DOMAIN message THEN message.name ELSE "",
               response |-> message.content]]
    ELSE [text |-> message.content]

GoogleMessage(message) ==
    IF message.role = "assistant" /\ "function_call" \in DOMAIN message
    THEN [role |-> message.role, parts |-> <<GooglePart(message)>>,
          function_call |-> [name |-> message.function_call.name,
                             args |-> message.function_call.arguments]]
    ELSE [role |-> message.role, parts |-> <<GooglePart(message)>>]
convert_openai_to_google_ai(messages) == MapSeq(messages, GoogleMessage)

\* kwargs.get("temperature", DEFAULT_TEMPERATURE)
KwGet(kwargs, key, default) ==
    IF key \in KwKeys(kwargs)
    THEN (CHOOSE o \in kwargs : o.key = key).value
    ELSE default

GenaiToolType(tool) ==
    [function_declarations |->
        <<[name |-> tool.name, description |-> tool.description,
           parameters |-> [type |-> "OBJECT", properties |-> tool.args]]>>]

\* convert_to_tools_types: None when tools is None or empty; the result is passed
\* as GenerativeModel(tools=...) either way.
convert_to_tools_types(tools) ==
    IF TruthyList(tools)
    THEN OptList(MapSeq(tools.items, GenaiToolType))
    ELSE OptNone

\* A faulty variant: the whole transformed history is handed to start_chat, the
\* last message included.
GenaiRequest_WholeHistory(model, messages, tools, kwargs) ==
    LET transformed_messages == transform_roles(messages)
        n == Len(transformed_messages)
    IN  [NoRequest EXCEPT
            !.api = "genai.GenerativeModel.start_chat.send_message",
            !.model = model,
            !.temperature = KwGet(kwargs, "temperature", DEFAULT_TEMPERATURE),
            !.src = IdxSeq(1, n),
            !.messages = convert_openai_to_google_ai(transformed_messages),
            !.live = transformed_messages[n].content,
            !.tools = convert_to_tools_types(tools)]

GenaiRequest(model, messages, tools, kwargs) ==
    LET transformed_messages == transform_roles(messages)
        n == Len(transformed_messages)
    IN  [NoRequest EXCEPT
            !.api = "genai.GenerativeModel.start_chat.send_message",
            !.model = model,
            !.temperature = KwGet(kwargs, "temperature", DEFAULT_TEMPERATURE),
            !.src = IdxSeq(1, n - 1),
            !.messages = convert_openai_to_google_ai(SubSeq(transformed_messages, 1, n - 1)),
            !.live = transformed_messages[n].content,
            !.tools = convert_to_tools_types(tools)]

\* Histories of a conversation that used functions: an assistant message may carry
\* a function_call, a message of role function the function's name.
FunctionMsgAlphabet ==
    { Msg("user", "u1"), Msg("assistant", "a1"),
      [role |-> "assistant", content |-> "a2",
       function_call |-> [name |-> "get_weather", arguments |-> "{\"location\": \"NY\"}"]],
      [role |-> "function", content |-> "f1", name |-> "get_weather"],
      [role |-> "function", content |-> "f2"] }
FunctionHistories == NonEmptySeqsUpTo(FunctionMsgAlphabet, MaxRoleMsgs)

GoogleToolCall(i, fc) ==
    [id |-> CallId(i), type |-> "function",
     function |-> [name |-> fc.name, arguments |-> fc.args]]

\* normalize_response of src/src/aisuite/providers/google_provider_shared.py
normalize_response(response) ==
    LET withContent ==
            [ChatCompletionResponse EXCEPT
                !.content = IF response.text # Absent THEN response.text ELSE ""]
        tool_calls == [i \in 1..Len(response.function_calls.items) |->
                          GoogleToolCall(i, response.function_calls.items[i])]
    IN  IF TruthyList(response.function_calls) /\ Len(tool_calls) > 0
        THEN [withContent EXCEPT !.tool_calls = OptList(tool_calls),
                                 !.finish_reason = "tool_calls"]
        ELSE withContent

\* candidates[0].content.parts[0] with or without a text, candidates[0] with or
\* without function_calls (a list of {name, args}); or the client raises.
GoogleFunctionCalls == {[name |-> c.name, args |-> c.arguments] : c \in CallAlphabet}
GenaiReplies ==
    { [transport |-> "ok", text |-> t, function_calls |-> fcs] :
        t \in {"r1", Absent},
        fcs \in {OptAbsent, OptNone}
                \cup {OptList(l) : l \in SeqsUpTo(GoogleFunctionCalls, MaxCalls)} }
    \cup {[transport |-> "sdk_error", text |-> Absent, function_calls |-> OptAbsent]}

GenaiOutcome(response) ==
    IF response.transport = "ok"
    THEN Returned(normalize_response(response))
    ELSE Raised("GoogleAPIError", <<>>)

GenaiChatCompletionsCreate ==
    /\ pc = "idle"
    /\ provider = "googlegenai"
    /\ \E model \in Models, messages \in GoogleHistories, tools \in ToolInputs,
          kwargs \in KwargInputs, response \in GenaiReplies :
          Completes(model, messages, tools, kwargs, response, transform_roles(messages),
                    GenaiRequest(model, messages, tools, kwargs), GenaiOutcome(response))

\* chat_completions_create on a history of a conversation that used functions
GenaiChatCompletionsCreateAfterCalls ==
    /\ pc = "idle"
    /\ provider = "googlegenai"
    /\ \E model \in Models, messages \in FunctionHistories, tools \in ToolInputs,
          kwargs \in KwargInputs, response \in GenaiReplies :
          Completes(model, messages, tools, kwargs, response, transform_roles(messages),
                    GenaiRequest(model, messages, tools, kwargs), GenaiOutcome(response))

\* convert_openai_to_google_ai of src/aisuite/providers/google_provider_shared.py:
\* Content(role=role, parts=[Part.from_text(content)])
VertexContent(message) == [role |-> message.role, parts |-> <<[text |-> message.content]>>]
VertexConvert(messages) == MapSeq(messages, VertexContent)

\* GenerativeModel(model, generation_config=GenerationConfig(temperature=temperature)):
\* the tools argument is not used.
VertexRequest(model, messages, tools, kwargs) ==
    LET transformed_messages == transform_roles(messages)
        n == Len(transformed_messages)
    IN  [NoRequest EXCEPT
            !.api = "vertexai.GenerativeModel.start_chat.send_message",
            !.model = model,
            !.temperature = KwGet(kwargs, "temperature", DEFAULT_TEMPERATURE),
            !.src = IdxSeq(1, n - 1),
            !.messages = VertexConvert(SubSeq(transformed_messages, 1, n - 1)),
            !.live = transformed_messages[n].content]

\* normalize_response of src/aisuite/providers/google_provider_shared.py
VertexNormalizeResponse(response) ==
    [ChatCompletionResponse EXCEPT !.content = response.text]

\* No function is ever declared to the model, so it answers with text; or the
\* client raises.
VertexReplies ==
    {[transport |-> "ok", text |-> "r1", function_calls |-> OptAbsent],
     [transport |-> "sdk_error", text |-> Absent, function_calls |-> OptAbsent]}

VertexOutcome(response) ==
    IF response.transport = "ok"
    THEN Returned(VertexNormalizeResponse(response))
    ELSE Raised("GoogleAPIError", <<>>)

VertexChatCompletionsCreate ==
    /\ pc = "idle"
    /\ provider = "googlevertex"
    /\ \E model \in Models, messages \in GoogleHistories, tools \in ToolInputs,
          kwargs \in KwargInputs, response \in VertexReplies :
          Completes(model, messages, tools, kwargs, response, transform_roles(messages),
                    VertexRequest(model, messages, tools, kwargs), VertexOutcome(response))

(***************************************************************************)
(* LangChain bridge: src/src/aisuite/providers/langchain_provider.py       *)
(***************************************************************************)
\* Lines 61-80: the cached client of the model name, created on first use; a cached
\* client's temperature is set to this call's.
\* A bridge that constructs a client on every call, cached or not.
LangchainConstructs_Always(cache, model_name) == model_name \in DOMAIN cache
\* if model_name not in self.model_instances: a client is constructed
LangchainConstructs(cache, model_name) == cache[model_name].kind = Absent

\* A faulty variant: a cached client keeps the temperature it was created with.
LangchainGetModel_StaleTemperature(cache, model_name, temperature) ==
    IF LangchainConstructs(cache, model_name)
    THEN ChatOpenAI(temperature)
    ELSE cache[model_name]

LangchainGetModel(cache, model_name, temperature) ==
    IF LangchainConstructs(cache, model_name)
    THEN ChatOpenAI(temperature)
    ELSE [cache[model_name] EXCEPT !.temperature = temperature]

\* Lines 82-105: one bridge message per message of a role the chain names.
LangchainKeptIdx(messages) ==
    SelectSeq(IdxSeq(1, Len(messages)),
              LAMBDA i : messages[i].role \in {"system", "user", "assistant", "function"})

\* An assistant message with the key "function_call" carries it in the bridge
\* message's additional_kwargs; a function message carries message.get("name", "").
LangchainMessage(message) ==
    CASE message.role = "system" -> [type |-> "SystemMessage", content |-> message.content]
      [] message.role = "user" -> [type |-> "HumanMessage", content |-> message.content]
      [] message.role = "assistant" ->
            IF "function_call" \in DOMAIN message
            THEN [type |-> "AIMessage", content |-> message.content,
                  additional_kwargs |-> [function_call |-> message.function_call]]
            ELSE [type |-> "AIMessage", content |-> message.content]
      [] OTHER ->
            [type |-> "FunctionMessage", content |-> message.content,
             name |-> IF "name" \in DOMAIN message THEN message.name ELSE ""]

\* Lines 107-132: StructuredTool(name, description, func, args_schema).to_openai_function()
LangchainFunction(tool) ==
    [name |-> tool.name, description |-> tool.description,
     parameters |-> [type |-> "object", properties |-> tool.args,
                     required |-> AwsRequired(tool.args)]]

\* if tools: chat_model.functions = [...]; otherwise the client keeps what it has.
LangchainSetFunctions(chat_model, tools) ==
    IF TruthyList(tools)
    THEN [chat_model EXCEPT !.functions = OptList(MapSeq(tools.items, LangchainFunction))]
    ELSE chat_model

\* chat_model.generate([langchain_messages]) on the client as it is then.
LangchainRequest(chat_model, model_name, messages) ==
    [NoRequest EXCEPT
        !.api = "ChatOpenAI.generate",
        !.model = model_name,
        !.temperature = chat_model.temperature,
        !.src = LangchainKeptIdx(messages),
        !.messages = MapSeq(LangchainKeptIdx(messages),
                            LAMBDA i : LangchainMessage(messages[i])),
        !.tools = chat_model.functions]

\* generations[0][0]: the message's content and additional_kwargs, finish_reason;
\* or generate raises.  additional_kwargs["tool_calls"] is read whole, never
\* element by element: a list of one call stands for every list.
LangchainReplies ==
    { [transport |-> "ok", code |-> "", body |-> b] :
        b \in {x \in OaiBodies :
                  /\ x.tool_calls.kind # None /\ x.finish_reason = Absent
                  /\ (x.tool_calls.kind = Absent \/ x.function_call.kind = Absent)
                  /\ (x.tool_calls.kind = "list" => Len(x.tool_calls.items) = 1)} }
    \cup {[transport |-> "sdk_error", code |-> "", body |-> NoBody]}

\* _normalize_response calls ChatCompletionResponse(id=..., object=..., ...), which
\* takes no arguments: the TypeError is caught and raised as LLMError, which the
\* caller's except clause raises as LLMError again.
LangchainOutcome(response) ==
    IF response.transport = "ok"
    THEN Raised("LLMError", <<"Error in Langchain chat completion",
                              "Error normalizing Langchain response">>)
    ELSE Raised("LLMError", <<"Error in Langchain chat completion", "vendor message">>)

\* chat_completions_create for a model name of models and a history of histories;
\* model_name = model or self.default_model, with no default model configured
LangchainCreate(models, histories) ==
    /\ pc = "idle"
    /\ provider = "langchain"
    /\ \E model \in models \cup {None}, messages \in histories,
          tools \in ToolInputs, kwargs \in KwargInputs, response \in LangchainReplies :
          /\ pc' = "done"
          /\ call' = [model |-> model, messages |-> messages, tools |-> tools,
                      kwargs |-> kwargs]
          /\ callerMessages' = messages
          /\ IF model = None
             THEN /\ reply' = NoReply
                  /\ request' = NoRequest
                  /\ outcome' = Raised("LLMError", <<"No model specified">>)
                  /\ vendorCalls' = 0
                  /\ UNCHANGED <<model_instances, history>>
             ELSE LET temperature == KwGet(kwargs, "temperature", DEFAULT_TEMPERATURE)
                      chat_model ==
                          LangchainSetFunctions(
                              LangchainGetModel(model_instances, model, temperature), tools)
                  IN  /\ reply' = response
                      /\ model_instances' = [model_instances EXCEPT ![model] = chat_model]
                      /\ request' = LangchainRequest(chat_model, model, messages)
                      /\ outcome' = LangchainOutcome(response)
                      /\ vendorCalls' = VendorRoundTrips(response)
                      /\ history' =
                            [used |-> history.used \cup {model},
                             constructed |->
                                [history.constructed EXCEPT
                                    ![model] = IF LangchainConstructs(model_instances, model)
                                               THEN @ + 1 ELSE @]]
          /\ UNCHANGED <<provider, construction, ranking, reranking, clients, threads>>

LangchainChatCompletionsCreate == LangchainCreate(LangchainModels, LangchainHistories)

\* Histories with a message of every canonical role: a function result carries the
\* function's name, an assistant message may carry a function_call.
BridgeMsgAlphabet ==
    { Msg("system", "s1"), Msg("user", "u1"), Msg("assistant", "a1"),
      [role |-> "assistant", content |-> "a2",
       function_call |-> [name |-> "get_time", arguments |-> "{}"]],
      [role |-> "function", content |-> "f1", name |-> "get_time"],
      Msg("tool", "t1") }
BridgeHistories == NonEmptySeqsUpTo(BridgeMsgAlphabet, MaxMsgs)

\* chat_completions_create on a history with a message of any canonical role
LangchainChatCompletionsCreateAnyRole == LangchainCreate({"m1"}, BridgeHistories)

(***************************************************************************)
(* Two threads in chat_completions_create on one LangchainChatProvider,    *)
(* with the same model name.  The method takes no lock: a thread may be    *)
(* preempted between any two of its statements.  A ChatOpenAI object has   *)
(* an identity: clients holds the objects, the cache and the threads'      *)
(* local chat_model hold references to them.                               *)
(***************************************************************************)
Threads == {1, 2}
\* kwargs.get("temperature"): not given, or one of two values
TemperatureOptions == {Absent, "t1", "t2"}

ClientRef(i) == [kind |-> "ChatOpenAI", id |-> i]
NoClientRef == [kind |-> Absent, id |-> 0]

\* A thread about to enter the method with its temperature option.
ThreadAt(option) ==
    [pc |-> "start", option |-> option, temperature |-> Absent, chat_model |-> NoClientRef,
     constructed |-> FALSE, issued |-> Absent, overlapped |-> FALSE]

\* Thread t takes a step; another thread is in the middle of the method.
Overlaps(t) == \E u \in Threads \ {t} : threads[u].pc \notin {"start", "done"}

\* thread t moves on with its record changed to next
ThreadStep(t, next) ==
    threads' = [threads EXCEPT
                   ![t] = [next EXCEPT !.overlapped = threads[t].overlapped \/ Overlaps(t)]]

\* Lines 54-62: temperature = kwargs.get("temperature", DEFAULT_TEMPERATURE);
\* if model_name not in self.model_instances
ThreadEnter(t) ==
    /\ provider = "langchain"
    /\ threads[t].pc = "start"
    /\ ThreadStep(t, [threads[t] EXCEPT
                         !.temperature = IF threads[t].option = Absent
                                         THEN DEFAULT_TEMPERATURE
                                         ELSE threads[t].option,
                         !.pc = IF LangchainConstructs(model_instances, "m1")
                                THEN "construct" ELSE "lookup"])
    /\ UNCHANGED <<pc, provider, call, reply, callerMessages, request, outcome,
                   model_instances, construction, ranking, reranking, vendorCalls,
                   history, clients>>

\* Lines 64-73: chat_model = ChatOpenAI(model_name=..., temperature=temperature, ...)
ThreadConstruct(t) ==
    /\ provider = "langchain"
    /\ threads[t].pc = "construct"
    /\ clients' = Append(clients, ChatOpenAI(threads[t].temperature))
    /\ ThreadStep(t, [threads[t] EXCEPT !.chat_model = ClientRef(Len(clients) + 1),
                                        !.constructed = TRUE,
                                        !.pc = "store"])
    /\ UNCHANGED <<pc, provider, call, reply, callerMessages, request, outcome,
                   model_instances, construction, ranking, reranking, vendorCalls,
                   history>>

\* Line 75: self.model_instances[model_name] = chat_model
ThreadStore(t) ==
    /\ provider = "langchain"
    /\ threads[t].pc = "store"
    /\ model_instances' = [model_instances EXCEPT !["m1"] = threads[t].chat_model]
    /\ ThreadStep(t, [threads[t] EXCEPT !.pc = "generate"])
    /\ UNCHANGED <<pc, provider, call, reply, callerMessages, request, outcome,
                   construction, ranking, reranking, vendorCalls, history, clients>>

\* Line 77: chat_model = self.model_instances[model_name]
ThreadLookup(t) ==
    /\ provider = "langchain"
    /\ threads[t].pc = "lookup"
    /\ ThreadStep(t, [threads[t] EXCEPT !.chat_model = model_instances["m1"],
                                        !.pc = "set_temperature"])
    /\ UNCHANGED <<pc, provider, call, reply, callerMessages, request, outcome,
                   model_instances, construction, ranking, reranking, vendorCalls,
                   history, clients>>

\* A faulty variant: the cached client's temperature is left as it is.
SetTemperature_Kept(chat_model, temperature) == chat_model
\* Lines 79-80: if chat_model.temperature != temperature:
\*                  chat_model.temperature = temperature
SetTemperature(chat_model, temperature) ==
    IF chat_model.temperature # temperature
    THEN [chat_model EXCEPT !.temperature = temperature]
    ELSE chat_model

ThreadSetTemperature(t) ==
    /\ provider = "langchain"
    /\ threads[t].pc = "set_temperature"
    /\ clients' = [clients EXCEPT
                      ![threads[t].chat_model.id] = SetTemperature(@, threads[t].temperature)]
    /\ ThreadStep(t, [threads[t] EXCEPT !.pc = "generate"])
    /\ UNCHANGED <<pc, provider, call, reply, callerMessages, request, outcome,
                   model_instances, construction, ranking, reranking, vendorCalls,
                   history>>

\* Line 136: chat_model.generate([langchain_messages]), issued with the temperature
\* the client object has at this moment.
ThreadGenerate(t) ==
    /\ provider = "langchain"
    /\ threads[t].pc = "generate"
    /\ ThreadStep(t, [threads[t] EXCEPT
                         !.issued = clients[threads[t].chat_model.id].temperature,
                         !.pc = "done"])
    /\ UNCHANGED <<pc, provider, call, reply, callerMessages, request, outcome,
                   model_instances, construction, ranking, reranking, vendorCalls,
                   history, clients>>

(***************************************************************************)
(* Construction of a provider: __init__ reads each credential of config   *)
(* and falls back on the process environment.                              *)
(***************************************************************************)
\* What a config may hold under a key: nothing, None, an empty or a real string.
ConfigValues == {Absent, None, "", "cfg"}
\* What the environment may hold under a name: nothing, an empty or a real string.
EnvValues == {Absent, "", "env"}

\* config.get(key)
ConfigGet(config, key) == IF config[key] = Absent THEN None ELSE config[key]
\* config.get(key, default) and config.setdefault(key, default)
ConfigGetDefault(config, key, default) ==
    IF config[key] = Absent THEN default ELSE config[key]
\* os.getenv(name)
getenv(environ, name) == IF environ[name] = Absent THEN None ELSE environ[name]
\* a or b
PyOr(a, b) == IF TruthyStr(a) THEN a ELSE b

NoClient == [sdk |-> Absent, args |-> {}]
Constructed(config, environ, fields, client) ==
    [config |-> config, environ |-> environ, status |-> "constructed", error |-> "",
     instance |-> fields, client |-> client]
ConstructionRaised(config, environ, e) ==
    [config |-> config, environ |-> environ, status |-> "raised", error |-> e,
     instance |-> {}, client |-> NoClient]

Constructs(result) ==
    /\ pc' = "done"
    /\ construction' = result
    /\ UNCHANGED <<provider, call, reply, callerMessages, request, outcome,
                   model_instances, ranking, reranking, vendorCalls, history, clients, threads>>

AzureInit(config, environ) ==
    LET base_url == PyOr(ConfigGet(config, "base_url"), getenv(environ, "AZURE_BASE_URL"))
        api_key == PyOr(ConfigGet(config, "api_key"), getenv(environ, "AZURE_API_KEY"))
    IN  IF ~TruthyStr(api_key) THEN ConstructionRaised(config, environ, "ValueError")
        ELSE IF ~TruthyStr(base_url) THEN ConstructionRaised(config, environ, "ValueError")
        ELSE Constructed(config, environ,
                         {Kw("base_url", base_url), Kw("api_key", api_key)}, NoClient)

AzureConstruct ==
    /\ pc = "idle"
    /\ provider = "azure"
    /\ \E config \in [{"api_key", "base_url"} -> ConfigValues],
          environ \in [{"AZURE_API_KEY", "AZURE_BASE_URL"} -> EnvValues] :
          Constructs(AzureInit(config, environ))

FireworksInit(config, environ) ==
    LET api_key == ConfigGetDefault(config, "api_key", getenv(environ, "FIREWORKS_API_KEY"))
    IN  IF ~TruthyStr(api_key) THEN ConstructionRaised(config, environ, "ValueError")
        ELSE Constructed(config, environ,
                         {Kw("api_key", api_key), Kw("timeout", "30")}, NoClient)

FireworksConstruct ==
    /\ pc = "idle"
    /\ provider = "fireworks"
    /\ \E config \in [{"api_key"} -> ConfigValues],
          environ \in [{"FIREWORKS_API_KEY"} -> EnvValues] :
          Constructs(FireworksInit(config, environ))

GroqInit(config, environ) ==
    LET api_key == ConfigGetDefault(config, "api_key", getenv(environ, "GROQ_API_KEY"))
    IN  IF ~TruthyStr(api_key) THEN ConstructionRaised(config, environ, "ValueError")
        ELSE Constructed(config, environ, {},
                         [sdk |-> "groq.Groq", args |-> {Kw("api_key", api_key)}])

GroqConstruct ==
    /\ pc = "idle"
    /\ provider = "groq"
    /\ \E config \in [{"api_key"} -> ConfigValues],
          environ \in [{"GROQ_API_KEY"} -> EnvValues] :
          Constructs(GroqInit(config, environ))

MistralInit(config, environ) ==
    LET api_key == ConfigGetDefault(config, "api_key", getenv(environ, "MISTRAL_API_KEY"))
    IN  IF ~TruthyStr(api_key) THEN ConstructionRaised(config, environ, "ValueError")
        ELSE Constructed(config, environ, {},
                         [sdk |-> "Mistral", args |-> {Kw("api_key", api_key)}])

MistralConstruct ==
    /\ pc = "idle"
    /\ provider = "mistral"
    /\ \E config \in [{"api_key"} -> ConfigValues],
          environ \in [{"MISTRAL_API_KEY"} -> EnvValues] :
          Constructs(MistralInit(config, environ))

GenaiInit(config, environ) ==
    LET api_key == PyOr(ConfigGet(config, "api_key"),
                        getenv(environ, "GOOGLE_GEN_AI_API_KEY"))
    IN  IF ~TruthyStr(api_key) THEN ConstructionRaised(config, environ, "EnvironmentError")
        ELSE Constructed(config, environ, {},
                         [sdk |-> "genai.configure", args |-> {Kw("api_key", api_key)}])

GenaiConstruct ==
    /\ pc = "idle"
    /\ provider = "googlegenai"
    /\ \E config \in [{"api_key"} -> ConfigValues],
          environ \in [{"GOOGLE_GEN_AI_API_KEY"} -> EnvValues] :
          Constructs(GenaiInit(config, environ))

VertexInit(config, environ) ==
    LET project_id == PyOr(ConfigGet(config, "project_id"),
                           getenv(environ, "GOOGLE_PROJECT_ID"))
        location == PyOr(ConfigGet(config, "region"), getenv(environ, "GOOGLE_REGION"))
        app_creds_path == PyOr(ConfigGet(config, "application_credentials"),
                               getenv(environ, "GOOGLE_APPLICATION_CREDENTIALS"))
    IN  IF ~TruthyStr(project_id) \/ ~TruthyStr(location) \/ ~TruthyStr(app_creds_path)
        THEN ConstructionRaised(config, environ, "EnvironmentError")
        ELSE Constructed(config, environ,
                         {Kw("project_id", project_id), Kw("location", location),
                          Kw("app_creds_path", app_creds_path)},
                         [sdk |-> "vertexai.init",
                          args |-> {Kw("project", project_id), Kw("location", location),
                                    Kw("credentials", app_creds_path)}])

VertexConstruct ==
    /\ pc = "idle"
    /\ provider = "googlevertex"
    /\ \E config \in [{"project_id", "region", "application_credentials"} -> ConfigValues],
          environ \in [{"GOOGLE_PROJECT_ID", "GOOGLE_REGION",
                        "GOOGLE_APPLICATION_CREDENTIALS"} -> EnvValues] :
          Constructs(VertexInit(config, environ))

\* GooglecloudRerankProvider.__init__ assigns the three fields and checks none; it
\* does not call GoogleCloudProvider.__init__.
GooglecloudRerankInit(config, environ) ==
    LET api_key == PyOr(ConfigGet(config, "api_key"),
                        getenv(environ, "GOOGLE_GEN_AI_API_KEY"))
        project_id == PyOr(ConfigGet(config, "project_id"),
                           getenv(environ, "GOOGLE_CLOUD_PROJECT_ID"))
        application_credential ==
            PyOr(ConfigGet(config, "application_credential"),
                 getenv(environ, "GOOGLE_CLOUD_APPLICATION_CREDENTIAL"))
    IN  Constructed(config, environ,
                    {Kw("api_key", api_key), Kw("project_id", project_id),
                     Kw("application_credential", application_credential)}, NoClient)

GooglecloudRerankConstruct ==
    /\ pc = "idle"
    /\ provider = "googlecloud_rerank"
    /\ \E config \in [{"api_key", "project_id", "application_credential"} -> ConfigValues],
          environ \in [{"GOOGLE_GEN_AI_API_KEY", "GOOGLE_CLOUD_PROJECT_ID",
                        "GOOGLE_CLOUD_APPLICATION_CREDENTIAL"} -> EnvValues] :
          Constructs(GooglecloudRerankInit(config, environ))

(***************************************************************************)
(* Rerank normalization: create_ranking_records(docs, doc_ids, metadata).  *)
(***************************************************************************)
MaxDocs == 3
MaxIds == 3

\* A document is a str or a rerankers Document; both carry a text.
DocStr(t) == [kind |-> "str", text |-> t]
Document(t) == [kind |-> "Document", text |-> t]
DocAlphabet == {DocStr("hello"), DocStr(""), Document("b")}
\* docs: one document, a list of documents, or a value of another type.
DocsInputs ==
    {[kind |-> "single", items |-> <<d>>] : d \in DocAlphabet}
        \cup {[kind |-> "list", items |-> ds] : ds \in SeqsUpTo(DocAlphabet, MaxDocs)}
        \cup {[kind |-> "other", items |-> <<>>]}

\* A doc id is a str or an int.
IdStr(v) == [type |-> "str", s |-> v, n |-> 0]
IdInt(v) == [type |-> "int", s |-> "", n |-> v]
DocIdAlphabet == {IdStr("x"), IdStr(""), IdInt(0), IdInt(7)}
DocIdInputs == {OptNone} \cup {OptList(ids) : ids \in SeqsUpTo(DocIdAlphabet, MaxIds)}
\* str(doc_id)
PyStr(id) == IF id.type = "int" THEN ToString(id.n) ELSE id.s
\* the truth value of a doc id
TruthyId(id) == IF id.type = "int" THEN id.n # 0 ELSE id.s # ""

\* metadata: None or a dict that may hold a title and a score.
MetaDict(title, score) == [kind |-> "dict", title |-> title, score |-> score]
MetadataInputs ==
    {NoMetadata, MetaDict(Absent, Absent), MetaDict("T", Absent), MetaDict("", Absent),
     MetaDict("T", "0.5")}

key_from_metadata_or_none(metadata, key) ==
    IF metadata.kind = "dict" /\ (metadata.title # Absent \/ metadata.score # Absent)
    THEN IF metadata[key] # Absent THEN metadata[key] ELSE None
    ELSE None

\* A RankingRecord, or None; element is the position in docs it was built from.
NoneRecord ==
    [kind |-> None, id |-> "", content |-> "", title |-> None, score |-> None,
     element |-> 0]
RankingRecord(id, content, title, score, element) ==
    [kind |-> "RankingRecord", id |-> id, content |-> content, title |-> title,
     score |-> score, element |-> element]

create_ranking_record(doc_id, text, metadata, element) ==
    LET title == key_from_metadata_or_none(metadata, "title")
    IN  IF ~TruthyStr(text) /\ ~TruthyStr(title)
        THEN NoneRecord
        ELSE RankingRecord(doc_id, text, title,
                           key_from_metadata_or_none(metadata, "score"), element)

get_doc_text(d) == d.text

\* Called with a list of doc ids only: len(doc_ids) raises TypeError on None.
parse_single_ranking_record(d, metadata, doc_ids) ==
    IF Len(doc_ids.items) >= 1
    THEN create_ranking_record(PyStr(doc_ids.items[1]), get_doc_text(d), metadata, 0)
    ELSE create_ranking_record("1", get_doc_text(d), metadata, 0)

\* A faulty variant: an id list shorter than docs still names the documents it covers.
get_doc_id_PerEntry(doc_ids, docs_len, i) ==
    IF TruthyList(doc_ids) /\ Len(doc_ids.items) > i /\ TruthyId(doc_ids.items[i + 1])
    THEN PyStr(doc_ids.items[i + 1])
    ELSE ToString(i)

\* i counts from 0, as enumerate does.
get_doc_id(doc_ids, docs_len, i) ==
    IF TruthyList(doc_ids) /\ Len(doc_ids.items) >= docs_len /\ TruthyId(doc_ids.items[i + 1])
    THEN PyStr(doc_ids.items[i + 1])
    ELSE ToString(i)

parse_to_ranking_record(d, metadata, doc_ids, i, docs_len) ==
    create_ranking_record(get_doc_id(doc_ids, docs_len, i), d.text, metadata, i)

NO_RECORDS == "Did not find any valid ranking records"
NO_TEXT_OR_TITLE == "Rerank must be provided with text or title."

Ranked(docs, doc_ids, metadata, records, log) ==
    [docs |-> docs, doc_ids |-> doc_ids, metadata |-> metadata, status |-> "returned",
     error |-> "", records |-> records, log |-> log]
RankingRaised(docs, doc_ids, metadata, e) ==
    [docs |-> docs, doc_ids |-> doc_ids, metadata |-> metadata, status |-> "raised",
     error |-> e, records |-> <<>>, log |-> <<>>]

\* A faulty variant: dropped records are not logged one by one.
create_ranking_records_SilentDrops(docs, doc_ids, metadata) ==
    CASE docs.kind = "single" ->
            IF doc_ids.kind = None
            THEN RankingRaised(docs, doc_ids, metadata, "TypeError")
            ELSE LET record == parse_single_ranking_record(docs.items[1], metadata, doc_ids)
                 IN  IF record.kind # None
                     THEN Ranked(docs, doc_ids, metadata, <<record>>, <<>>)
                     ELSE Ranked(docs, doc_ids, metadata, <<>>, <<NO_RECORDS>>)
      [] docs.kind = "list" ->
            LET n == Len(docs.items)
                all == [k \in 1..n |->
                          parse_to_ranking_record(docs.items[k], metadata, doc_ids, k - 1, n)]
                ranking_records == SelectSeq(all, LAMBDA r : r.kind # None)
            IN  Ranked(docs, doc_ids, metadata, ranking_records,
                       IF Len(ranking_records) = 0 THEN <<NO_RECORDS>> ELSE <<>>)
      [] OTHER -> Ranked(docs, doc_ids, metadata, <<>>, <<NO_RECORDS>>)

create_ranking_records(docs, doc_ids, metadata) ==
    CASE docs.kind = "single" ->
            IF doc_ids.kind = None
            THEN RankingRaised(docs, doc_ids, metadata, "TypeError")
            ELSE LET record == parse_single_ranking_record(docs.items[1], metadata, doc_ids)
                 IN  IF record.kind # None
                     THEN Ranked(docs, doc_ids, metadata, <<record>>, <<>>)
                     ELSE Ranked(docs, doc_ids, metadata, <<>>,
                                 <<NO_TEXT_OR_TITLE, NO_RECORDS>>)
      [] docs.kind = "list" ->
            LET n == Len(docs.items)
                all == [k \in 1..n |->
                          parse_to_ranking_record(docs.items[k], metadata, doc_ids, k - 1, n)]
                ranking_records == SelectSeq(all, LAMBDA r : r.kind # None)
                dropped == SelectSeq(all, LAMBDA r : r.kind = None)
                warned == [k \in 1..Len(dropped) |-> NO_TEXT_OR_TITLE]
            IN  Ranked(docs, doc_ids, metadata, ranking_records,
                       IF Len(ranking_records) = 0
                       THEN Append(warned, NO_RECORDS) ELSE warned)
      [] OTHER -> Ranked(docs, doc_ids, metadata, <<>>, <<NO_RECORDS>>)

CreateRankingRecords ==
    /\ pc = "idle"
    /\ provider = "rerank_util"
    /\ \E docs \in DocsInputs, doc_ids \in DocIdInputs, metadata \in MetadataInputs :
          ranking' = create_ranking_records(docs, doc_ids, metadata)
    /\ pc' = "done"
    /\ UNCHANGED <<provider, call, reply, callerMessages, request, outcome,
                   model_instances, construction, reranking, vendorCalls, history, clients, threads>>

(***************************************************************************)
(* get_text of src/src/aisuite/framework/rerank_util.py: the text of a     *)
(* document representation, which may be nested.                           *)
(***************************************************************************)
MaxDepth == 3

\* A str; a dict with or without the key "text"; an object with or without an
\* attribute text (a Document has one, an int has none).
TextStr(s) == [kind |-> "str", value |-> s]
TextDict(inner) == [kind |-> "dict", text |-> inner]
TextObject(inner) == [kind |-> "Document", text |-> inner]
TextLeaves == {TextStr("hello"), TextStr(""), [kind |-> "dict"], [kind |-> "int"]}

RECURSIVE TextReprs(_)
TextReprs(depth) ==
    IF depth = 0
    THEN TextLeaves
    ELSE LET inner == TextReprs(depth - 1)
         IN  TextLeaves \cup {TextDict(x) : x \in inner} \cup {TextObject(x) : x \in inner}

\* The value of a function that ends without a return statement.
PyNone == [kind |-> None]

\* A faulty variant: the text is looked up once, without recursion.
get_text_OneLevel(d) ==
    CASE d.kind = "str" -> d
      [] d.kind # "str" /\ "text" \in DOMAIN d ->
            IF d.text.kind = "str" THEN d.text ELSE PyNone
      [] OTHER -> PyNone

\* isinstance(d, str): d; isinstance(d, dict): get_text(d['text']) when the key is
\* there; hasattr(d, 'text'): get_text(d.text); otherwise the function ends.
RECURSIVE get_text(_)
get_text(d) ==
    CASE d.kind = "str" -> d
      [] d.kind = "dict" -> IF "text" \in DOMAIN d THEN get_text(d.text) ELSE PyNone
      [] d.kind \notin {"str", "dict"} /\ "text" \in DOMAIN d -> get_text(d.text)
      [] OTHER -> PyNone

\* text = get_text(d)
GetText ==
    /\ pc = "idle"
    /\ provider = "get_text"
    /\ pc' = "done"
    /\ ranking' = [ranking EXCEPT !.status = "returned",
                                  !.records = <<get_text(ranking.docs.items[1])>>]
    /\ UNCHANGED <<provider, call, reply, callerMessages, request, outcome,
                   model_instances, construction, reranking, vendorCalls, history, clients, threads>>

(***************************************************************************)
(* GooglecloudReranker.rank(query, docs): the documents become ranking     *)
(* records of a RankRequest, and the ranked results are read from records. *)
(***************************************************************************)
\* rerankers.utils.prep_docs(docs, None, None): a list of str becomes a list of
\* Documents with positional ids and no metadata.
prep_docs(docs) == [i \in 1..Len(docs) |-> Document(docs[i].text)]

\* The one-argument create_ranking_records on a list of Documents: the record of
\* element i has id str(i), and is dropped when the text is empty (no title).
RerankerRecords(docs) ==
    LET all == [k \in 1..Len(docs) |->
                  IF ~TruthyStr(docs[k].text)
                  THEN NoneRecord
                  ELSE RankingRecord(ToString(k - 1), docs[k].text, None, None, k - 1)]
    IN  SelectSeq(all, LAMBDA r : r.kind # None)

\* do_rank builds the RankRequest and returns it; nothing sends it.
do_rank(query, docs) ==
    [ranking_config |-> "default_ranking_config", top_n |-> Len(docs), query |-> query,
     records |-> RerankerRecords(docs)]

\* _parse_ranked_results(query, scores): one Result per entry of scores.records,
\* entry i (counted from 0) at rank i, with no score.
RankedResult(next_doc, i) ==
    [document |-> [text |-> next_doc.content, doc_id |-> next_doc.id],
     score |-> None, rank |-> i]
parse_ranked_results(query, scores) ==
    [k \in 1..Len(scores.records) |-> RankedResult(scores.records[k], k - 1)]

\* rank: scores is what self.gen_ai returns, and self.gen_ai is do_rank.
rank(query, docs) == parse_ranked_results(query, do_rank(query, prep_docs(docs)))

RankDocsInputs ==
    NonEmptySeqsUpTo({DocStr("hello"), DocStr("b"), DocStr("c"), DocStr("")}, MaxDocs)

\* What the ranking service would answer to a request with top_n = len(docs): its
\* records, each once, in the service's order of relevance.
VendorRankings(records) ==
    {r \in [1..Len(records) -> Range(records)] :
        \A i, j \in 1..Len(r) : i # j => r[i] # r[j]}

GooglecloudRank ==
    /\ pc = "idle"
    /\ provider = "googlecloud_reranker"
    /\ \E docs \in RankDocsInputs :
          LET req == do_rank("q", prep_docs(docs))
          IN  \E vendor \in VendorRankings(req.records) :
                 reranking' = [query |-> "q", docs |-> docs, request |-> req.records,
                               vendor |-> vendor, status |-> "returned",
                               results |-> rank("q", docs)]
    /\ pc' = "done"
    /\ vendorCalls' = 0
    /\ UNCHANGED <<provider, call, reply, callerMessages, request, outcome,
                   model_instances, construction, ranking, history, clients, threads>>

\* The caller drops the result; the provider instance is ready for the next call.
Return ==
    /\ pc = "done"
    /\ pc' = "idle"
    /\ call' = NoCall
    /\ reply' = NoReply
    /\ callerMessages' = <<>>
    /\ request' = NoRequest
    /\ outcome' = NoOutcome
    /\ construction' = NoConstruction
    /\ ranking' = NoRanking
    /\ reranking' = NoReranking
    /\ vendorCalls' = 0
    /\ UNCHANGED <<provider, model_instances, history, clients, threads>>

Adapters ==
    {"aws", "anthropic", "azure", "fireworks", "groq", "mistral", "googlegenai",
     "googlevertex"}

Init ==
    /\ pc = "idle"
    /\ provider \in Adapters
    /\ call = NoCall
    /\ reply = NoReply
    /\ callerMessages = <<>>
    /\ request = NoRequest
    /\ outcome = NoOutcome
    /\ model_instances = EmptyCache
    /\ construction = NoConstruction
    /\ ranking = NoRanking
    /\ reranking = NoReranking
    /\ vendorCalls = 0
    /\ history = NoHistory
    /\ clients = <<>>
    /\ threads = NoThreads

Next ==
    \/ AwsChatCompletionsCreate
    \/ AnthropicChatCompletionsCreate
    \/ AzureChatCompletionsCreate
    \/ FireworksChatCompletionsCreate
    \/ GroqChatCompletionsCreate
    \/ MistralChatCompletionsCreate
    \/ GenaiChatCompletionsCreate
    \/ VertexChatCompletionsCreate
    \/ Return

Spec == Init /\ [][Next]_vars

\* A LangChain-bridge provider instance and its sequential calls.
InitLangchain ==
    /\ pc = "idle"
    /\ provider = "langchain"
    /\ call = NoCall
    /\ reply = NoReply
    /\ callerMessages = <<>>
    /\ request = NoRequest
    /\ outcome = NoOutcome
    /\ model_instances = EmptyCache
    /\ construction = NoConstruction
    /\ ranking = NoRanking
    /\ reranking = NoReranking
    /\ vendorCalls = 0
    /\ history = NoHistory
    /\ clients = <<>>
    /\ threads = NoThreads

NextLangchain ==
    \/ LangchainChatCompletionsCreate
    \/ Return

SpecLangchain == InitLangchain /\ [][NextLangchain]_vars

\* Constructions of a provider from a config and an environment.
Constructors ==
    {"azure", "fireworks", "groq", "mistral", "googlegenai", "googlevertex",
     "googlecloud_rerank"}

InitConfig ==
    /\ pc = "idle"
    /\ provider \in Constructors
    /\ call = NoCall
    /\ reply = NoReply
    /\ callerMessages = <<>>
    /\ request = NoRequest
    /\ outcome = NoOutcome
    /\ model_instances = EmptyCache
    /\ construction = NoConstruction
    /\ ranking = NoRanking
    /\ reranking = NoReranking
    /\ vendorCalls = 0
    /\ history = NoHistory
    /\ clients = <<>>
    /\ threads = NoThreads

NextConfig ==
    \/ AzureConstruct
    \/ FireworksConstruct
    \/ GroqConstruct
    \/ MistralConstruct
    \/ GenaiConstruct
    \/ VertexConstruct
    \/ GooglecloudRerankConstruct
    \/ Return

SpecConfig == InitConfig /\ [][NextConfig]_vars

\* Calls of the rerank normalization.
InitRerank ==
    /\ pc = "idle"
    /\ provider = "rerank_util"
    /\ call = NoCall
    /\ reply = NoReply
    /\ callerMessages = <<>>
    /\ request = NoRequest
    /\ outcome = NoOutcome
    /\ model_instances = EmptyCache
    /\ construction = NoConstruction
    /\ ranking = NoRanking
    /\ reranking = NoReranking
    /\ vendorCalls = 0
    /\ history = NoHistory
    /\ clients = <<>>
    /\ threads = NoThreads

NextRerank ==
    \/ CreateRankingRecords
    \/ Return

SpecRerank == InitRerank /\ [][NextRerank]_vars

\* Calls of GooglecloudReranker.rank.
InitRank ==
    /\ pc = "idle"
    /\ provider = "googlecloud_reranker"
    /\ call = NoCall
    /\ reply = NoReply
    /\ callerMessages = <<>>
    /\ request = NoRequest
    /\ outcome = NoOutcome
    /\ model_instances = EmptyCache
    /\ construction = NoConstruction
    /\ ranking = NoRanking
    /\ reranking = NoReranking
    /\ vendorCalls = 0
    /\ history = NoHistory
    /\ clients = <<>>
    /\ threads = NoThreads

NextRank ==
    \/ GooglecloudRank
    \/ Return

SpecRank == InitRank /\ [][NextRank]_vars

\* transform_roles applied to a list of messages.
InitRoles ==
    /\ pc = "idle"
    /\ provider = "google_provider_shared"
    /\ \E messages \in RoleHistories : call = [NoCall EXCEPT !.messages = messages]
    /\ reply = NoReply
    /\ callerMessages = <<>>
    /\ request = NoRequest
    /\ outcome = NoOutcome
    /\ model_instances = EmptyCache
    /\ construction = NoConstruction
    /\ ranking = NoRanking
    /\ reranking = NoReranking
    /\ vendorCalls = 0
    /\ history = NoHistory
    /\ clients = <<>>
    /\ threads = NoThreads

NextRoles == TransformRoles

SpecRoles == InitRoles /\ [][NextRoles]_vars

(***************************************************************************)
(* The adapters that hand a temperature to the vendor's generation config: *)
(* the two Google adapters and the LangChain bridge, call after call.      *)
(***************************************************************************)
Temperate == {"googlegenai", "googlevertex", "langchain"}

InitTemperature ==
    /\ pc = "idle"
    /\ provider \in Temperate
    /\ call = NoCall
    /\ reply = NoReply
    /\ callerMessages = <<>>
    /\ request = NoRequest
    /\ outcome = NoOutcome
    /\ model_instances = EmptyCache
    /\ construction = NoConstruction
    /\ ranking = NoRanking
    /\ reranking = NoReranking
    /\ vendorCalls = 0
    /\ history = NoHistory
    /\ clients = <<>>
    /\ threads = NoThreads

NextTemperature ==
    \/ GenaiChatCompletionsCreate
    \/ VertexChatCompletionsCreate
    \/ LangchainChatCompletionsCreate
    \/ Return

SpecTemperature == InitTemperature /\ [][NextTemperature]_vars

(***************************************************************************)
(* The LangChain bridge on histories with a message of any canonical role. *)
(***************************************************************************)
InitBridge ==
    /\ pc = "idle"
    /\ provider = "langchain"
    /\ call = NoCall
    /\ reply = NoReply
    /\ callerMessages = <<>>
    /\ request = NoRequest
    /\ outcome = NoOutcome
    /\ model_instances = EmptyCache
    /\ construction = NoConstruction
    /\ ranking = NoRanking
    /\ reranking = NoReranking
    /\ vendorCalls = 0
    /\ history = NoHistory
    /\ clients = <<>>
    /\ threads = NoThreads

NextBridge == LangchainChatCompletionsCreateAnyRole \/ Return

SpecBridge == InitBridge /\ [][NextBridge]_vars

(***************************************************************************)
(* Two threads call one LangChain provider with the same model name and    *)
(* different temperatures; the client of the name is cached already (an    *)
(* earlier call made it) or not.                                           *)
(***************************************************************************)
InitThreads ==
    /\ pc = "idle"
    /\ provider = "langchain"
    /\ call = NoCall
    /\ reply = NoReply
    /\ callerMessages = <<>>
    /\ request = NoRequest
    /\ outcome = NoOutcome
    /\ \/ /\ model_instances = EmptyCache
          /\ clients = <<>>
       \/ /\ model_instances = [EmptyCache EXCEPT !["m1"] = ClientRef(1)]
          /\ clients = <<ChatOpenAI(DEFAULT_TEMPERATURE)>>
    /\ construction = NoConstruction
    /\ ranking = NoRanking
    /\ reranking = NoReranking
    /\ vendorCalls = 0
    /\ history = NoHistory
    /\ \E option \in [Threads -> TemperatureOptions] :
          /\ option[1] # option[2]
          /\ threads = [t \in Threads |-> ThreadAt(option[t])]

NextThreads ==
    \E t \in Threads :
        \/ ThreadEnter(t)
        \/ ThreadConstruct(t)
        \/ ThreadStore(t)
        \/ ThreadLookup(t)
        \/ ThreadSetTemperature(t)
        \/ ThreadGenerate(t)

SpecThreads == InitThreads /\ [][NextThreads]_vars

(***************************************************************************)
(* get_text on every document representation of depth MaxDepth or less.    *)
(***************************************************************************)
InitText ==
    /\ pc = "idle"
    /\ provider = "get_text"
    /\ call = NoCall
    /\ reply = NoReply
    /\ callerMessages = <<>>
    /\ request = NoRequest
    /\ outcome = NoOutcome
    /\ model_instances = EmptyCache
    /\ construction = NoConstruction
    /\ \E d \in TextReprs(MaxDepth) :
          ranking = [NoRanking EXCEPT !.docs = [kind |-> "single", items |-> <<d>>]]
    /\ reranking = NoReranking
    /\ vendorCalls = 0
    /\ history = NoHistory
    /\ clients = <<>>
    /\ threads = NoThreads

NextText == GetText

SpecText == InitText /\ [][NextText]_vars

(***************************************************************************)
(* The GenAI adapter on histories of conversations that used functions.    *)
(***************************************************************************)
InitFunctions ==
    /\ pc = "idle"
    /\ provider = "googlegenai"
    /\ call = NoCall
    /\ reply = NoReply
    /\ callerMessages = <<>>
    /\ request = NoRequest
    /\ outcome = NoOutcome
    /\ model_instances = EmptyCache
    /\ construction = NoConstruction
    /\ ranking = NoRanking
    /\ reranking = NoReranking
    /\ vendorCalls = 0
    /\ history = NoHistory
    /\ clients = <<>>
    /\ threads = NoThreads

NextFunctions == GenaiChatCompletionsCreateAfterCalls \/ Return

SpecFunctions == InitFunctions /\ [][NextFunctions]_vars

(***************************************************************************)
(* Properties of the chat adapters                                         *)
(***************************************************************************)
Called == pc = "done" /\ request.api # "none"
FirstIsSystem == Len(call.messages) > 0 /\ call.messages[1].role = "system"
ToolsGiven == TruthyList(call.tools)

\* C1 as claimed: for every adapter, when the first message of the history is a
\* system message, the vendor's message list is not built from it and its content
\* is in the vendor's system channel (the system field; for Google the chat history).
C1_EveryAdapterExtractsSystem ==
    (Called /\ FirstIsSystem) =>
        /\ 1 \notin Range(request.src)
        /\ \/ call.messages[1].content \in Range(request.system.texts)
           \/ /\ provider \in {"googlegenai", "googlevertex"}
              /\ \E k \in 1..Len(request.messages) :
                    request.messages[k].parts[1].text = call.messages[1].content

\* C1 amended: the AWS and Anthropic adapters build the vendor's message list from
\* the later messages only and hand the first system message's content to the
\* system field, and nothing else; the Google adapters send it with role user, as
\* the first entry of the chat history when the history has two messages or more
\* and as the live turn when it is the only message; the other adapters leave it
\* where it is, first in the vendor's message list.
C1_SystemChannel ==
    (Called /\ FirstIsSystem) =>
        CASE provider \in {"aws", "anthropic"} ->
                /\ 1 \notin Range(request.src)
                /\ request.system.texts = <<call.messages[1].content>>
          [] provider \in {"googlegenai", "googlevertex"} ->
                IF Len(call.messages) >= 2
                THEN /\ request.src[1] = 1
                     /\ request.messages[1].role = "user"
                     /\ request.messages[1].parts[1].text = call.messages[1].content
                ELSE /\ request.messages = <<>>
                     /\ request.live = call.messages[1].content
          [] OTHER ->
                /\ request.system.kind = Absent
                /\ request.src[1] = 1
                /\ request.messages[1] = call.messages[1]

C1_Witness ==
    /\ Called
    /\ provider = "anthropic"
    /\ FirstIsSystem
    /\ Len(call.messages) = 2
    /\ request.src = <<2>>
    /\ request.system = SysStr(call.messages[1].content)

\* C2 as claimed: for every adapter, when tools is None or empty the vendor request
\* has no tools field: not a list, not None.
C2_NoToolsFieldWithoutTools ==
    (Called /\ ~ToolsGiven) => request.tools.kind = Absent

\* The declaration an adapter hands to its vendor, read through the vendor's field
\* names: its name, its description, its parameter properties.
Declared(d) ==
    CASE provider = "aws" ->
            [name |-> d.name, description |-> d.description,
             properties |-> d.inputSchema.json.properties]
      [] provider = "anthropic" ->
            [name |-> d.name, description |-> d.description, properties |-> d.input_schema]
      [] provider = "googlegenai" ->
            [name |-> d.function_declarations[1].name,
             description |-> d.function_declarations[1].description,
             properties |-> d.function_declarations[1].parameters.properties]
      [] provider = "langchain" ->
            [name |-> d.name, description |-> d.description,
             properties |-> d.parameters.properties]
      [] OTHER ->
            [name |-> d.name, description |-> d.description, properties |-> d.args]

\* C3 as claimed: for every adapter, a call with a non-empty tools sequence hands the
\* vendor one declaration per tool descriptor, in the same order, with the
\* descriptor's name, description and args.
C3_OneDeclarationPerTool ==
    (Called /\ ToolsGiven) =>
        /\ request.tools.kind = "list"
        /\ Len(request.tools.items) = Len(call.tools.items)
        /\ \A i \in 1..Len(request.tools.items) :
              Declared(request.tools.items[i]) =
                  [name |-> call.tools.items[i].name,
                   description |-> call.tools.items[i].description,
                   properties |-> call.tools.items[i].args]

\* The tool calls of the vendor's response, as [name, arguments], in its order;
\* empty when the response carries none.
VendorToolCalls ==
    CASE provider = "aws" /\ reply.transport = "ok" ->
            MapSeq(reply.toolUse.items,
                   LAMBDA u : [name |-> u.toolName, arguments |-> u.input])
      [] provider \in {"azure", "fireworks"} /\ reply.transport = "ok" ->
            MapSeq(reply.body.tool_calls.items, LAMBDA c : c.function)
      [] provider \in {"googlegenai", "googlevertex"} /\ reply.transport = "ok" ->
            MapSeq(reply.function_calls.items,
                   LAMBDA f : [name |-> f.name, arguments |-> f.args])
      [] OTHER -> <<>>

ReturnedResponse == pc = "done" /\ outcome.status = "returned"

\* C4: a vendor response with tool calls yields finish_reason "tool_calls" and a
\* non-empty message.tool_calls whose first entry has the name and the arguments of
\* the vendor's first tool call.
C4_ToolCallsNormalized ==
    (ReturnedResponse /\ Len(VendorToolCalls) > 0) =>
        /\ outcome.response.finish_reason = "tool_calls"
        /\ outcome.response.tool_calls.kind = "list"
        /\ Len(outcome.response.tool_calls.items) > 0
        /\ outcome.response.tool_calls.items[1].function = VendorToolCalls[1]

C4_Witness ==
    /\ ReturnedResponse
    /\ provider = "aws"
    /\ Len(VendorToolCalls) > 0
    /\ outcome.response.tool_calls.items[1].function.name = reply.toolUse.items[1].toolName

LegacyFunctionCallOnly ==
    /\ provider \in {"azure", "fireworks"}
    /\ reply.transport = "ok"
    /\ reply.body.function_call.kind # Absent
    /\ reply.body.tool_calls.kind = Absent

\* C5: an Azure or Fireworks response whose message has a function_call and no
\* tool_calls key yields finish_reason "function_call", the vendor's function_call
\* as message.function_call, and no message.tool_calls.
C5_FunctionCallNormalized ==
    (ReturnedResponse /\ LegacyFunctionCallOnly) =>
        /\ outcome.response.finish_reason = "function_call"
        /\ outcome.response.function_call = reply.body.function_call
        /\ outcome.response.tool_calls.kind = Absent

C5_Witness ==
    /\ ReturnedResponse
    /\ LegacyFunctionCallOnly
    /\ provider = "fireworks"
    /\ outcome.response.function_call.name = "search"

\* The vendor's own finish reason, where the response states one.
VendorFinishReason ==
    CASE provider = "aws" -> reply.stopReason
      [] provider \in {"azure", "fireworks"} -> reply.body.finish_reason
      [] OTHER -> Absent

NoToolSignal ==
    /\ provider \in {"aws", "azure", "fireworks", "googlegenai", "googlevertex"}
    /\ reply.transport = "ok"
    /\ CASE provider = "aws" -> reply.toolUse.kind = Absent
         [] provider \in {"azure", "fireworks"} ->
               /\ reply.body.tool_calls.kind = Absent
               /\ reply.body.function_call.kind = Absent
         [] OTHER -> reply.function_calls.kind = Absent

\* C6 as claimed: with no tool-call or function-call signal in the vendor response,
\* finish_reason is the vendor's stated finish reason, and "stop" when it states none.
C6_FinishReasonFallsBack ==
    (ReturnedResponse /\ NoToolSignal) =>
        outcome.response.finish_reason =
            (IF VendorFinishReason # Absent THEN VendorFinishReason ELSE "stop")

TransportFailed ==
    /\ pc = "done"
    /\ provider \in {"azure", "fireworks"}
    /\ reply.transport \in {"http_error", "network_error"}

\* C8 as claimed: every transport failure of an Azure or Fireworks call, a network
\* failure as well as a non-success HTTP response, is raised as the layer's own
\* error (Azure: an Exception carrying status code, headers and body; Fireworks: an
\* LLMError carrying the vendor message).
C8_EveryFailureWrapped ==
    TransportFailed =>
        /\ outcome.status = "raised"
        /\ provider = "azure" =>
              /\ outcome.error = "Exception"
              /\ outcome.detail = <<"status code", "headers", "body">>
        /\ provider = "fireworks" =>
              /\ outcome.error = "LLMError"
              /\ "vendor message" \in Range(outcome.detail)

\* C8 amended: Fireworks raises every transport failure as an LLMError carrying the
\* vendor message; Azure raises a non-success HTTP response as an Exception carrying
\* status code, headers and body, and lets a network failure (URLError) through as
\* it is.
C8_FailuresWrapped ==
    TransportFailed =>
        /\ outcome.status = "raised"
        /\ provider = "fireworks" =>
              /\ outcome.error = "LLMError"
              /\ "vendor message" \in Range(outcome.detail)
        /\ (provider = "azure" /\ reply.transport = "http_error") =>
              /\ outcome.error = "Exception"
              /\ outcome.detail = <<"status code", "headers", "body">>
        /\ (provider = "azure" /\ reply.transport = "network_error") =>
              outcome.error = "URLError"

C8_Witness ==
    /\ TransportFailed
    /\ provider = "azure"
    /\ reply.transport = "http_error"
    /\ outcome.error = "Exception"

(***************************************************************************)
(* Properties of construction                                              *)
(***************************************************************************)
\* The credentials each constructor requires, each with its environment variable.
CredentialEnv ==
    [p \in Constructors |->
        CASE p = "azure" ->
                {<<"api_key", "AZURE_API_KEY">>, <<"base_url", "AZURE_BASE_URL">>}
          [] p = "fireworks" -> {<<"api_key", "FIREWORKS_API_KEY">>}
          [] p = "groq" -> {<<"api_key", "GROQ_API_KEY">>}
          [] p = "mistral" -> {<<"api_key", "MISTRAL_API_KEY">>}
          [] p = "googlegenai" -> {<<"api_key", "GOOGLE_GEN_AI_API_KEY">>}
          [] p = "googlevertex" ->
                {<<"project_id", "GOOGLE_PROJECT_ID">>, <<"region", "GOOGLE_REGION">>,
                 <<"application_credentials", "GOOGLE_APPLICATION_CREDENTIALS">>}
          [] OTHER ->
                {<<"api_key", "GOOGLE_GEN_AI_API_KEY">>,
                 <<"project_id", "GOOGLE_CLOUD_PROJECT_ID">>,
                 <<"application_credential", "GOOGLE_CLOUD_APPLICATION_CREDENTIAL">>}]

ConstructorEnded == pc = "done" /\ construction.status # "none"

\* A required credential is given neither in config nor in the environment.
CredentialMissing ==
    \E ce \in CredentialEnv[provider] :
        /\ construction.config[ce[1]] \in {Absent, None}
        /\ construction.environ[ce[2]] = Absent

\* C7 as claimed: constructing a provider with a required credential given neither
\* in config nor in the environment raises a configuration error; no instance is
\* produced and no vendor client has been set up.
C7_MissingCredentialRaises ==
    (ConstructorEnded /\ CredentialMissing) =>
        /\ construction.status = "raised"
        /\ construction.error \in {"ValueError", "EnvironmentError"}
        /\ construction.instance = {}
        /\ construction.client = NoClient

(***************************************************************************)
(* Properties of the rerank normalization                                  *)
(***************************************************************************)
RankingEnded == pc = "done" /\ ranking.status # "none"

\* The metadata title is a non-empty string.
TitleGiven == ranking.metadata.kind = "dict" /\ TruthyStr(ranking.metadata.title)

\* C9 as claimed: a single string or Document whose text or metadata title is
\* non-empty yields exactly one record, whose content is the document's text and
\* whose id is the first supplied doc id, and "1" when no ids are supplied.
C9_SingleDocumentOneRecord ==
    (RankingEnded /\ ranking.docs.kind = "single"
        /\ (ranking.docs.items[1].text # "" \/ TitleGiven)) =>
        /\ ranking.status = "returned"
        /\ Len(ranking.records) = 1
        /\ ranking.records[1].content = ranking.docs.items[1].text
        /\ ranking.records[1].id =
              (IF TruthyList(ranking.doc_ids)
               THEN PyStr(ranking.doc_ids.items[1]) ELSE "1")

\* C10: for a list of documents, the record built from element i (counted from 0)
\* has the id str(doc_ids[i]) when doc_ids has at least as many entries as docs and
\* doc_ids[i] is truthy, and str(i) otherwise; every element with a non-empty text
\* or title has its record, in the order of docs; with fewer doc_ids than docs
\* every id is positional.
C10_ListIds ==
    (RankingEnded /\ ranking.docs.kind = "list") =>
        LET docs == ranking.docs.items
            ids == ranking.doc_ids.items
            records == ranking.records
        IN  /\ ranking.status = "returned"
            /\ \A k \in 1..Len(records) :
                  LET i == records[k].element
                  IN  /\ i \in 0..(Len(docs) - 1)
                      /\ records[k].content = docs[i + 1].text
                      /\ records[k].id =
                            (IF Len(ids) >= Len(docs) /\ TruthyId(ids[i + 1])
                             THEN PyStr(ids[i + 1]) ELSE ToString(i))
                      /\ Len(ids) < Len(docs) => records[k].id = ToString(i)
            /\ \A k \in 1..(Len(records) - 1) : records[k].element < records[k + 1].element
            /\ \A i \in 0..(Len(docs) - 1) :
                  (docs[i + 1].text # "" \/ TitleGiven) =>
                      \E k \in 1..Len(records) : records[k].element = i

C10_Witness ==
    /\ RankingEnded
    /\ Len(ranking.docs.items) = 3
    /\ Len(ranking.doc_ids.items) = 2
    /\ ranking.doc_ids.items[1] = IdStr("x")
    /\ Len(ranking.records) = 3
    /\ ranking.records[1].id = "0"
    /\ ranking.records[2].id = "1"
    /\ ranking.records[3].id = "2"

\* A document's text and the metadata title are both empty.
EmptyDocument(d) == d.text = "" /\ ~TitleGiven

\* C11 as claimed: for any input shape every returned record carries a non-empty
\* content or a non-empty title, and a document whose text and title are both empty
\* raises nothing and has no record in the result.
C11_RecordsValidNeverRaise ==
    RankingEnded =>
        /\ \A k \in 1..Len(ranking.records) :
              ranking.records[k].content # "" \/ TruthyStr(ranking.records[k].title)
        /\ \A i \in 1..Len(ranking.docs.items) :
              EmptyDocument(ranking.docs.items[i]) =>
                  /\ ranking.status = "returned"
                  /\ \A k \in 1..Len(ranking.records) : ranking.records[k].element # i - 1

AllDocumentsEmpty ==
    /\ RankingEnded
    /\ ranking.docs.kind = "list"
    /\ \A i \in 1..Len(ranking.docs.items) : EmptyDocument(ranking.docs.items[i])

\* C12 as claimed: a list in which every element has an empty text and no title
\* yields an empty sequence, and the only warning of the call is one "no valid
\* ranking records" warning.
C12_OneWarningOnly ==
    AllDocumentsEmpty =>
        /\ ranking.status = "returned"
        /\ ranking.records = <<>>
        /\ ranking.log = <<NO_RECORDS>>

\* C12 amended: such a list yields an empty sequence; the call logs one "must be
\* provided with text or title" warning for each dropped element and then one "no
\* valid ranking records" warning.
C12_WarningPerDrop ==
    AllDocumentsEmpty =>
        /\ ranking.status = "returned"
        /\ ranking.records = <<>>
        /\ Len(ranking.log) = Len(ranking.docs.items) + 1
        /\ ranking.log[Len(ranking.log)] = NO_RECORDS
        /\ \A k \in 1..Len(ranking.docs.items) : ranking.log[k] = NO_TEXT_OR_TITLE

C12_Witness ==
    /\ AllDocumentsEmpty
    /\ Len(ranking.docs.items) = 2
    /\ ranking.doc_ids.kind = None
    /\ ranking.metadata.kind = None
    /\ ranking.log = <<NO_TEXT_OR_TITLE, NO_TEXT_OR_TITLE, NO_RECORDS>>

(***************************************************************************)
(* Properties of GooglecloudReranker.rank                                  *)
(***************************************************************************)
RankEnded == pc = "done" /\ reranking.status = "returned"

\* C13 as claimed: rank returns one RankedResult per entry of the vendor's ranked
\* response, in the vendor's order, entry i at rank index i with the entry's content
\* as document text.
C13_ResultsFollowVendor ==
    RankEnded =>
        /\ Len(reranking.results) = Len(reranking.vendor)
        /\ \A k \in 1..Len(reranking.results) :
              /\ reranking.results[k].rank = k - 1
              /\ reranking.results[k].document.text = reranking.vendor[k].content

(***************************************************************************)
(* Properties of transform_roles                                           *)
(***************************************************************************)
RolesTransformed == pc = "done" /\ provider = "google_provider_shared"

\* C14: transform_roles maps the role system to user and assistant to model and
\* leaves every other role as it is; the result has the length and the order of the
\* input, and every message keeps its content.
C14_RolesMapped ==
    RolesTransformed =>
        /\ Len(callerMessages) = Len(call.messages)
        /\ \A i \in 1..Len(call.messages) :
              /\ callerMessages[i].content = call.messages[i].content
              /\ callerMessages[i].role =
                    (IF call.messages[i].role = "system" THEN "user"
                     ELSE IF call.messages[i].role = "assistant" THEN "model"
                     ELSE call.messages[i].role)

C14_Witness ==
    /\ RolesTransformed
    /\ call.messages = <<Msg("system", "s1"), Msg("user", "u1"), Msg("assistant", "a1")>>
    /\ callerMessages = <<Msg("user", "s1"), Msg("user", "u1"), Msg("model", "a1")>>

(***************************************************************************)
(* Further properties of the chat adapters                                 *)
(***************************************************************************)
ChatCallEnded == pc = "done" /\ provider \in Adapters \cup {"langchain"}

\* C15 as claimed: after a chat_completions_create call, successful or failed, the
\* caller's messages list has the length, the order, the roles and the contents it
\* had before the call.
C15_HistoryUnmodified ==
    ChatCallEnded => callerMessages = call.messages

VendorFailed == reply.transport \notin {"ok", "none"}

C17_OneClientPerModelName ==
    provider = "langchain" =>
        \A m \in LangchainModels :
            /\ (m \in history.used) = (model_instances[m].kind # Absent)
            /\ history.constructed[m] = (IF m \in history.used THEN 1 ELSE 0)

\* Both names have been used, and this call reused the client of "m1": it gave no
\* tools, and the client still carries the functions an earlier call set on it.
C17_Witness ==
    /\ pc = "done"
    /\ provider = "langchain"
    /\ history.used = LangchainModels
    /\ call.model = "m1"
    /\ ~TruthyList(call.tools)
    /\ request.tools.kind = "list"

\* The vendor result's message carries function_call or tool_calls in its
\* additional_kwargs.
LangchainSideChannel ==
    /\ pc = "done"
    /\ provider = "langchain"
    /\ reply.transport = "ok"
    /\ (reply.body.function_call.kind # Absent \/ reply.body.tool_calls.kind = "list")

\* C18 as claimed: when the LangChain result's message carries function_call
\* (or tool_calls) in its additional fields, chat_completions_create returns a
\* canonical response with that function call (those tool calls, in order), the
\* vendor message's content, and the generation's finish reason or "stop".
C18_SideChannelNormalized ==
    LangchainSideChannel =>
        /\ outcome.status = "returned"
        /\ outcome.response.content = reply.body.content
        /\ outcome.response.function_call = reply.body.function_call
        /\ outcome.response.tool_calls = reply.body.tool_calls
        /\ outcome.response.finish_reason =
              (IF reply.body.finish_reason = Absent THEN "stop"
               ELSE reply.body.finish_reason)

\* The ids the claim names, by position.
SynthesizedIds == <<"call_0", "call_1", "call_2", "call_3">>

\* C19: for AWS and Google (the GenAI adapter, the one that is handed function
\* calls), which supply no tool-call ids, message.tool_calls has
\* the length and the order of the vendor's tool-use list, and entry i (from 0) has
\* id "call_<i>", type "function", and the vendor entry's name and arguments
\* unmodified; the id is a function of the position alone, so normalizing the same
\* response again gives the same ids.
C19_IdsSynthesized ==
    (ReturnedResponse /\ provider \in {"aws", "googlegenai"}) =>
        LET tool_calls == outcome.response.tool_calls.items
        IN  /\ Len(tool_calls) = Len(VendorToolCalls)
            /\ \A i \in 1..Len(VendorToolCalls) :
                  /\ tool_calls[i].id = SynthesizedIds[i]
                  /\ tool_calls[i].type = "function"
                  /\ tool_calls[i].function = VendorToolCalls[i]

\* Two different vendor calls, normalized in the vendor's order.
C19_Witness ==
    /\ ReturnedResponse
    /\ provider = "googlegenai"
    /\ Len(VendorToolCalls) = 2
    /\ VendorToolCalls[1].name = "search"
    /\ VendorToolCalls[2].name = "get_weather"
    /\ outcome.response.tool_calls.items[2].id = "call_1"
    /\ outcome.response.tool_calls.items[2].function.name = "get_weather"

\* The keys Bedrock takes in inferenceConfig, as the claim lists them.
RecognizedKeys == {"maxTokens", "temperature", "topP", "stopSequences"}

\* C20: in the AWS adapter every keyword option of the caller is in exactly one of
\* the two request maps, with its value: in inferenceConfig iff its key is one of
\* maxTokens, temperature, topP, stopSequences, in additionalModelRequestFields
\* otherwise; the maps are disjoint and together hold exactly the caller's options.
C20_OptionsPartitioned ==
    (Called /\ provider = "aws") =>
        /\ \A o \in call.kwargs :
              /\ (o \in request.inferenceConfig) = (o.key \in RecognizedKeys)
              /\ (o \in request.additionalModelRequestFields) = (o.key \notin RecognizedKeys)
        /\ request.inferenceConfig \cap request.additionalModelRequestFields = {}
        /\ request.inferenceConfig \cup request.additionalModelRequestFields = call.kwargs

\* One call whose options go one to each map.
C20_Witness ==
    /\ Called
    /\ provider = "aws"
    /\ request.inferenceConfig = {Kw("maxTokens", "n1")}
    /\ request.additionalModelRequestFields = {Kw("stream", "true")}

\* The positions of the history's messages whose role is not system, in order.
NonSystemIdx(messages) ==
    SelectSeq(IdxSeq(1, Len(messages)), LAMBDA i : messages[i].role # "system")

\* The role and the text of entry k of the vendor-facing message list.
VendorFacing(k) ==
    IF provider = "aws"
    THEN Msg(request.messages[k].role, request.messages[k].content[1].text)
    ELSE Msg(request.messages[k].role, request.messages[k].content)

\* C21 as claimed: in the AWS and Anthropic adapters the vendor-facing message
\* list is exactly the history's non-system messages, in order, role and content
\* kept; a system message beyond the first is nowhere in the request (the system
\* field holds at most the first message's content), and the call raises nothing
\* when the vendor answers.
C21_LaterSystemDropped ==
    (Called /\ provider \in {"aws", "anthropic"}) =>
        LET kept == NonSystemIdx(call.messages)
        IN  /\ Len(request.messages) = Len(kept)
            /\ \A k \in 1..Len(kept) : VendorFacing(k) = call.messages[kept[k]]
            /\ \A k \in 1..Len(request.messages) : request.messages[k].role # "system"
            /\ Range(request.system.texts) \subseteq {call.messages[1].content}
            /\ (reply.transport = "ok" => outcome.status = "returned")

\* The role a canonical role is sent under to Google, as the claims state it.
TransformedRole(role) ==
    IF role = "system" THEN "user" ELSE IF role = "assistant" THEN "model" ELSE role

\* C22: in the Google adapters, for a history of n >= 1 messages the content of the
\* last message is sent as the live turn, and the chat history is the first n-1
\* messages, one entry each, in order, with the transformed role and the message
\* content as its text part.
C22_LastIsLiveTurn ==
    (Called /\ provider \in {"googlegenai", "googlevertex"}) =>
        LET n == Len(call.messages)
        IN  /\ request.live = call.messages[n].content
            /\ Len(request.messages) = n - 1
            /\ \A k \in 1..(n - 1) :
                  /\ request.messages[k].role = TransformedRole(call.messages[k].role)
                  /\ request.messages[k].parts = <<[text |-> call.messages[k].content]>>

\* A history of three messages: two different entries of chat history, in order,
\* and the third as the live turn.
C22_Witness ==
    /\ Called
    /\ provider = "googlegenai"
    /\ call.messages = <<Msg("system", "s1"), Msg("assistant", "a1"), Msg("user", "u1")>>
    /\ request.messages[1].role = "user"
    /\ request.messages[2].role = "model"
    /\ request.live = "u1"

\* C23 as claimed: in the Google request path every prior assistant message that
\* carries a function_call gives a history entry with a function_call sub-field
\* holding the call's name and arguments, and every prior message of role function
\* gives a history entry with a function_response holding its name and content.
C23_CallsEmbedded ==
    (Called /\ provider = "googlegenai") =>
        \A k \in 1..(Len(call.messages) - 1) :
            LET message == call.messages[k]
                entry == request.messages[k]
            IN  /\ (message.role = "assistant" /\ "function_call" \in DOMAIN message) =>
                      /\ "function_call" \in DOMAIN entry
                      /\ entry.function_call.name = message.function_call.name
                      /\ entry.function_call.args = message.function_call.arguments
                /\ message.role = "function" =>
                      /\ "function_response" \in DOMAIN entry.parts[1]
                      /\ entry.parts[1].function_response.response = message.content
                      /\ "name" \in DOMAIN message =>
                            entry.parts[1].function_response.name = message.name

\* The four adapters the claim names.
KeyedAdapters == {"azure", "fireworks", "groq", "mistral"}

\* A value that is supplied and not empty.
Supplied(v) == v \notin {Absent, None, ""}

\* The value the claim resolves a configuration key to: the explicit parameter when
\* it is supplied with a non-empty value, otherwise the environment variable's.
Resolved(ce) ==
    IF Supplied(construction.config[ce[1]])
    THEN construction.config[ce[1]]
    ELSE construction.environ[ce[2]]

\* The values the constructed provider (or the vendor client it made) holds.
HeldValues == construction.instance \cup construction.client.args

\* C24 as claimed: Azure, Fireworks, Groq and Mistral resolve each required
\* configuration value from the explicit parameter first and the environment
\* variable second, so construction fails only when neither gives a non-empty
\* value, also when the explicit parameter is None or empty and the variable is set.
C24_ExplicitThenEnvironment ==
    (ConstructorEnded /\ provider \in KeyedAdapters) =>
        IF \A ce \in CredentialEnv[provider] : Supplied(Resolved(ce))
        THEN /\ construction.status = "constructed"
             /\ \A ce \in CredentialEnv[provider] : Kw(ce[1], Resolved(ce)) \in HeldValues
        ELSE construction.status = "raised"

(***************************************************************************)
(* Properties of get_text                                                  *)
(***************************************************************************)
TextEnded == pc = "done" /\ provider = "get_text"

\* A mapping with the key text, or an object with the attribute text.
HasText(x) == x.kind # "str" /\ "text" \in DOMAIN x

\* What is reached from d by following text for as long as there is one.
Innermost(d) ==
    LET reached[i \in 0..(MaxDepth + 1)] ==
            IF i = 0 THEN d
            ELSE IF HasText(reached[i - 1]) THEN reached[i - 1].text ELSE reached[i - 1]
    IN  reached[MaxDepth + 1]

\* C25: get_text ends on every document representation of finite depth and returns
\* the innermost string reached by following a mapping's text key or an object's
\* text attribute: the input itself for a plain string, and None when no string is
\* reached (a mapping without the key, a value with neither).
C25_InnermostString ==
    TextEnded =>
        LET d == ranking.docs.items[1]
            text == ranking.records[1]
        IN  /\ text = (IF Innermost(d).kind = "str" THEN Innermost(d) ELSE PyNone)
            /\ d.kind = "str" => text = d

\* Three levels, a mapping in an object in a mapping, down to the string.
C25_Witness ==
    /\ TextEnded
    /\ ranking.docs.items[1] = TextDict(TextObject(TextDict(TextStr("hello"))))
    /\ ranking.records[1] = TextStr("hello")

\* The temperature option of this call, or 0.7 when the call gives none.
OwnTemperature ==
    IF \E o \in call.kwargs : o.key = "temperature"
    THEN (CHOOSE o \in call.kwargs : o.key = "temperature").value
    ELSE "0.7"

\* C26: in the Google GenAI, Google Vertex and LangChain adapters, over any sequence
\* of calls, the vendor call of each chat_completions_create is made with the
\* temperature option of that call, or 0.7 when it gives none, whatever the
\* temperatures of earlier calls, also on a cached LangChain client.
C26_OwnTemperature ==
    (Called /\ provider \in Temperate) => request.temperature = OwnTemperature

\* A call without a temperature on a cached LangChain client (it gave no tools and
\* the client carries the functions of an earlier call): the default is sent.
C26_Witness ==
    /\ Called
    /\ provider = "langchain"
    /\ call.kwargs = {}
    /\ ~TruthyList(call.tools)
    /\ request.tools.kind = "list"
    /\ request.temperature = "0.7"

\* The bridge's message class for a canonical role, as the claim maps them.
BridgeType(role) ==
    CASE role = "system" -> "SystemMessage"
      [] role = "user" -> "HumanMessage"
      [] role = "assistant" -> "AIMessage"
      [] role = "function" -> "FunctionMessage"
      [] OTHER -> "ToolMessage"

\* C27 as claimed: the LangChain bridge converts the history one for one: the list
\* handed to the vendor has one entry per input message, in the same order, a
\* system message as SystemMessage, user as HumanMessage, assistant as AIMessage,
\* function as FunctionMessage with the message's name, for every canonical role
\* (system, user, assistant, function, tool).
C27_OneForOne ==
    (Called /\ provider = "langchain") =>
        /\ Len(request.messages) = Len(call.messages)
        /\ \A k \in 1..Len(call.messages) :
              /\ request.messages[k].content = call.messages[k].content
              /\ call.messages[k].role # "tool" =>
                    request.messages[k].type = BridgeType(call.messages[k].role)
              /\ call.messages[k].role = "function" =>
                    request.messages[k].name = call.messages[k].name

\* C28 as claimed: in every canonical response of a normalizing adapter (AWS, Azure,
\* Fireworks, Google), finish_reason is "tool_calls" exactly when message.tool_calls
\* has been set to a non-empty sequence; a vendor response without a tool signal
\* leaves tool_calls unset, and a tool-call field that is present but empty or null
\* never yields finish_reason "tool_calls".
C28_FinishIffToolCalls ==
    (ReturnedResponse
        /\ provider \in {"aws", "azure", "fireworks", "googlegenai", "googlevertex"}) =>
        /\ (outcome.response.finish_reason = "tool_calls")
              = (/\ outcome.response.tool_calls.kind = "list"
                 /\ Len(outcome.response.tool_calls.items) > 0)
        /\ NoToolSignal => outcome.response.tool_calls.kind = Absent

\* C29 as claimed: on one LangChain bridge instance the function declarations on
\* the model client for a call depend on that call's tools argument only: one
\* declaration per tool of this call, and none when this call gives no tools, also
\* after an earlier call with tools on the same model name.
C29_FunctionsOfThisCall ==
    (Called /\ provider = "langchain") =>
        IF ToolsGiven
        THEN /\ request.tools.kind = "list"
             /\ Len(request.tools.items) = Len(call.tools.items)
             /\ \A k \in 1..Len(call.tools.items) :
                   request.tools.items[k].name = call.tools.items[k].name
        ELSE request.tools.kind \in {Absent, None}

(***************************************************************************)
(* C30.  Two chat_completions_create calls on one LangChain provider with  *)
(* the same model name and different temperatures.                         *)
(***************************************************************************)
ThreadsDone == threads # NoThreads /\ \A t \in Threads : threads[t].pc = "done"
Interleaved == \E t \in Threads : threads[t].overlapped
\* the temperature the call of thread t asked for
CallTemperature(t) ==
    IF threads[t].option = Absent THEN DEFAULT_TEMPERATURE ELSE threads[t].option
OwnTemperatureIssued == \A t \in Threads : threads[t].issued = CallTemperature(t)
OneClientForName == Len(clients) <= 1

\* C30 (as stated): when the two calls interleave, each call's vendor request is
\* still issued with that call's own temperature, and at most one model client
\* is constructed for the model name.
C30_InterleavedCallsIsolated ==
    (ThreadsDone /\ Interleaved) => (OwnTemperatureIssued /\ OneClientForName)

\* C30 (amended): when the two calls do not interleave, one returning before
\* the other starts, each call's vendor request is issued with that call's own
\* temperature, and at most one model client is constructed for the model name.
C30_SequentialCallsIsolated ==
    (ThreadsDone /\ ~Interleaved) => (OwnTemperatureIssued /\ OneClientForName)

\* Both calls returned without interleaving on a provider with an empty cache:
\* the first constructed the client, the second reused it with its temperature
\* changed, and each request went out with its own call's temperature.
C30_Witness ==
    /\ ThreadsDone
    /\ ~Interleaved
    /\ threads[1].constructed
    /\ ~threads[2].constructed
    /\ threads[2].chat_model = threads[1].chat_model
    /\ threads[1].issued # threads[2].issued
    /\ OwnTemperatureIssued
    /\ Len(clients) = 1

====
